---- MODULE Spec2Model ----
(***************************************************************************)
(* Verification model of the Retouch Engine toolkit (YotsuiroHook):        *)
(*   GYU_Decode.py  - MT19937 engine, shuffle, LZSS / LZSS2 decoders,      *)
(*                    GYU container decode                                 *)
(*   GYU_Encode.py  - MT19937 engine, scramble, LZSS encoder, GYU encode   *)
(*   RLD_Decryptor.py - key table, RLD decrypt, TSV repair                 *)
(*                                                                         *)
(* 32-bit unsigned words are pairs <<hi, lo>> of 16-bit halves, so that    *)
(* every arithmetic step stays inside the model checker's integers while   *)
(* the words keep their full width (all results are reduced mod 2^32       *)
(* exactly where the Python code masks with 0xFFFFFFFF).                   *)
(***************************************************************************)
EXTENDS Integers, Sequences, FiniteSets, TLC

VARIABLES
    \* ---- MersenneTwister object under test (GYU_Decode.py / GYU_Encode.py)
    mt,         \* self.mt: 624 words, indexed 0..623
    index,      \* self.index: the cursor
    mtSeed,     \* the seed passed to seed(), or NoSeed before seeding
    drawn,      \* values returned by next() since seeding, in order
    keys,       \* result of generate_key_table(mtSeed), or <<>> if not yet run
    \* ---- shuffle runs on one input (GYU_Decode.py:76-108,354-363,
    \*      GYU_Encode.py:66-78)
    shIn,       \* the input buffer (data), a sequence of bytes
    shKey,      \* key / seed argument
    shSize,     \* size argument
    shPc,       \* how many of the runs below have been made
    shEnc,      \* scramble(shIn, shKey)
    shDec,      \* unscramble(shEnc, shKey, shSize)
    shFwd,      \* shuffle_compressed(shIn, shKey, shSize)
    shRev,      \* unshuffle_decompressed(shIn, shKey, shSize)
    shBack,     \* unshuffle_decompressed(shFwd, shKey, shSize)
    shPairs,    \* the list `pairs` built by unshuffle_decompressed
    \* ---- LZSS round trip (GYU_Encode.py:81-144, GYU_Decode.py:111-157)
    lzIn,       \* the byte string given to compress_lzss
    lzComp,     \* compress_lzss(lzIn), or None
    lzOut,      \* decompress_lzss(lzComp, len(lzIn)), or None
    \* ---- one call of decompress_lzss2 (GYU_Decode.py:159-239)
    l2Data,     \* data
    l2Size,     \* output_size (= out_end)
    l2Out,      \* output
    l2Pos,      \* pos
    l2Bits,     \* saved_bits
    l2Count,    \* saved_count
    l2Pc,       \* "first", "loop" (at the head of the while loop), "done"
    l2Ret,      \* the returned bytes, or None
    \* ---- decrypt_rld on one file (RLD_Decryptor.py:136-150)
    rlSeed,     \* the seed the key table is generated from, or NoSeed
    rlKeys,     \* keys = generate_key_table(seed), or <<>>
    rlData,     \* data, or None
    rlOnce,     \* decrypt_rld(data, keys), or None
    rlTwice,    \* decrypt_rld(decrypt_rld(data, keys), keys), or None
    \* ---- one image through png_to_gyu and decode_gyu
    gyImg,      \* the image: [bpp, width, height, pat, has_alpha]
    gyKey,      \* key
    gyRaw,      \* raw_data, the padded bottom-up pixel rows
    gyAlphaRaw, \* alpha_raw, or None when the image has no alpha
    gyFile,     \* the bytes of the written .gyu file, or None
    gyRgb,      \* decode_gyu(...)['rgb'], or None
    gyAlphaOut, \* decode_gyu(...)['alpha'], or None
    gyPc,       \* "image", "encoded", "decoded", "error"
    \* ---- fix_corrupted_tsv, step 4 and 5 (RLD_Decryptor.py:632-688)
    tsvFile,    \* the characters of the working TSV
    tsvPristine,\* pristine: (file, index, type) -> original text
    tsvPos,     \* number of lines the loop has consumed
    tsvLines,   \* lines
    tsvOut,     \* the characters written to output_tsv, or None
    tsvPc,      \* "loop", "written"
    \* ---- a batch run of one of the three tools over a list of files
    baTool,     \* "gyu_decode", "gyu_encode" or "rld_extract"
    baFiles,    \* per file of the batch, what processing it does
    baPos,      \* number of files the loop has taken
    baProcessed,\* positions of the files processed to the end
    baReported, \* positions of the files whose error was reported
    baPc,       \* "loop", "done", "aborted"
    \* ---- an extraction run / a TSV-repair run of RLD_Decryptor.py
    ruMode,     \* "extract" (main) or "fix" (fix_corrupted_tsv)
    ruFiles,    \* sorted(dir.glob('*.rld')): the file names
    ruDefExists,\* (dir / 'defChara.rld').exists()
    ruDefTable, \* what parse_defchara finds in defChara.rld
    ruPos,      \* number of files the loop has taken
    ruTable,    \* CHAR_TABLE
    ruSeen,     \* CHAR_TABLE at each call of extract_translatable, in order
    ruParsedAt, \* len(ruSeen) at each call of parse_defchara, in order
    ruPc,       \* "defchara", "scripts", "done"
    \* ---- parse_rld on one decrypted file (RLD_Decryptor.py:166-218)
    prData,     \* data
    prCmds,     \* the returned list
    prPc,       \* "call", "returned"
    \* ---- extract_translatable on one command list
    exCmds,     \* commands
    exTable,    \* CHAR_TABLE
    exPos,      \* number of commands the loop has taken
    exEntries,  \* entries
    exBranch,   \* current_branch
    exPc,       \* "loop", "done"
    \* ---- compress_lzss and decompress_lzss run token by token
    lkIn,       \* data given to compress_lzss
    lkComp,     \* compress_lzss(lkIn)
    lkEnc,      \* the encoder's state after lkK tokens
    lkDec,      \* the decoder's state after lkK tokens of lkComp
    lkK,        \* number of tokens taken
    \* ---- decompress_lzss on arbitrary bytes with an output_size
    dzData,     \* data
    dzSize,     \* output_size
    dzRet       \* the returned bytes, or None

mtVars == <<mt, index, mtSeed, drawn, keys>>
shVars == <<shIn, shKey, shSize, shPc, shEnc, shDec, shFwd, shRev, shBack,
            shPairs>>

lzVars == <<lzIn, lzComp, lzOut>>

l2Vars == <<l2Data, l2Size, l2Out, l2Pos, l2Bits, l2Count, l2Pc, l2Ret>>

rlVars == <<rlSeed, rlKeys, rlData, rlOnce, rlTwice>>

gyVars == <<gyImg, gyKey, gyRaw, gyAlphaRaw, gyFile, gyRgb, gyAlphaOut, gyPc>>

tsvVars == <<tsvFile, tsvPristine, tsvPos, tsvLines, tsvOut, tsvPc>>

baVars == <<baTool, baFiles, baPos, baProcessed, baReported, baPc>>

ruVars == <<ruMode, ruFiles, ruDefExists, ruDefTable, ruPos, ruTable, ruSeen,
            ruParsedAt, ruPc>>

prVars == <<prData, prCmds, prPc>>

exVars == <<exCmds, exTable, exPos, exEntries, exBranch, exPc>>

lkVars == <<lkIn, lkComp, lkEnc, lkDec, lkK>>

dzVars == <<dzData, dzSize, dzRet>>

codecVars == <<mtVars, shVars, lzVars, l2Vars, rlVars, gyVars, tsvVars>>

toolVars == <<baVars, ruVars, prVars, exVars, lkVars, dzVars>>

vars == <<codecVars, toolVars>>

\* every variable outside one group
exceptMt == <<shVars, lzVars, l2Vars, rlVars, gyVars, tsvVars, toolVars>>
exceptSh == <<mtVars, lzVars, l2Vars, rlVars, gyVars, tsvVars, toolVars>>
exceptLz == <<mtVars, shVars, l2Vars, rlVars, gyVars, tsvVars, toolVars>>
exceptL2 == <<mtVars, shVars, lzVars, rlVars, gyVars, tsvVars, toolVars>>
exceptRl == <<mtVars, shVars, lzVars, l2Vars, gyVars, tsvVars, toolVars>>
exceptGy == <<mtVars, shVars, lzVars, l2Vars, rlVars, tsvVars, toolVars>>
exceptTsv == <<mtVars, shVars, lzVars, l2Vars, rlVars, gyVars, toolVars>>

exceptBa == <<codecVars, ruVars, prVars, exVars, lkVars, dzVars>>
exceptRu == <<codecVars, baVars, prVars, exVars, lkVars, dzVars>>
exceptPr == <<codecVars, baVars, ruVars, exVars, lkVars, dzVars>>
exceptEx == <<codecVars, baVars, ruVars, prVars, lkVars, dzVars>>
exceptLk == <<codecVars, baVars, ruVars, prVars, exVars, dzVars>>
exceptDz == <<codecVars, baVars, ruVars, prVars, exVars, lkVars>>

\* a byte string that has not been computed yet (no byte is negative)
None == << -1 >>

\* Python's None where an integer is expected (the default output_size)
NoSize == -1

-----------------------------------------------------------------------------
(* 32-bit word arithmetic                                                  *)

RECURSIVE BitXor(_, _, _)
\* a ^ b on n-bit operands
BitXor(a, b, n) ==
    IF n = 0 THEN 0
    ELSE ((a + b) % 2) + (2 * BitXor(a \div 2, b \div 2, n - 1))

RECURSIVE BitAnd(_, _, _)
\* a & b on n-bit operands
BitAnd(a, b, n) ==
    IF n = 0 THEN 0
    ELSE ((a % 2) * (b % 2)) + (2 * BitAnd(a \div 2, b \div 2, n - 1))

RECURSIVE BitOr(_, _, _)
\* a | b on n-bit operands
BitOr(a, b, n) ==
    IF n = 0 THEN 0
    ELSE (IF a % 2 = 1 \/ b % 2 = 1 THEN 1 ELSE 0)
             + (2 * BitOr(a \div 2, b \div 2, n - 1))

\* evaluation order: v is computed before e is (operands are otherwise
\* evaluated on demand, which nests one pending loop pass inside the next)
Strict(v, e) == IF {v} # {} THEN e ELSE e

\* the one element of a singleton set: The({ e(x) : x \in {v} }) is e(v)
\* with v computed once
The(S) == CHOOSE x \in S : TRUE

Pow2(k) == 2 ^ k

Half == 65536

\* the three operations on 4-bit operands, tabulated once
XorTab == [a \in 0 .. 15 |-> [b \in 0 .. 15 |-> BitXor(a, b, 4)]]
AndTab == [a \in 0 .. 15 |-> [b \in 0 .. 15 |-> BitAnd(a, b, 4)]]
OrTab  == [a \in 0 .. 15 |-> [b \in 0 .. 15 |-> BitOr(a, b, 4)]]

\* a 4-bit table applied to the four nibbles of two 16-bit operands
Nib16(tab, a, b) ==
      tab[a % 16][b % 16]
    + (16 * tab[(a \div 16) % 16][(b \div 16) % 16])
    + (256 * tab[(a \div 256) % 16][(b \div 256) % 16])
    + (4096 * tab[a \div 4096][b \div 4096])

Xor32(x, y) == <<Nib16(XorTab, x[1], y[1]), Nib16(XorTab, x[2], y[2])>>
And32(x, y) == <<Nib16(AndTab, x[1], y[1]), Nib16(AndTab, x[2], y[2])>>
Or32(x, y)  == <<Nib16(OrTab, x[1], y[1]), Nib16(OrTab, x[2], y[2])>>

\* x >> k for 0 <= k < 32
Shr32(x, k) ==
    IF k >= 16 THEN <<0, x[1] \div Pow2(k - 16)>>
    ELSE <<x[1] \div Pow2(k),
           ((x[1] % Pow2(k)) * Pow2(16 - k)) + (x[2] \div Pow2(k))>>

\* (x << k) & 0xFFFFFFFF for 0 <= k < 16
Shl32(x, k) ==
    <<((x[1] * Pow2(k)) % Half) + (x[2] \div Pow2(16 - k)),
      (x[2] * Pow2(k)) % Half>>

\* x % n for a word x and 0 < n < 2^15
Mod32(x, n) == (((x[1] % n) * (Half % n)) + (x[2] % n)) % n

\* (69069 * a + 1) & 0xFFFFFFFF, with 69069 = 65536 + 3533
Lcg(a) ==
    LET t == (3533 * a[2]) + 1
    IN  <<(a[2] + (3533 * a[1]) + (t \div Half)) % Half, t % Half>>

ZeroWord   == <<0, 0>>
UPPER_MASK == <<32768, 0>>        \* 0x80000000
LOWER_MASK == <<32767, 65535>>    \* 0x7FFFFFFF
MATRIX_A   == <<39176, 45279>>    \* 0x9908B0DF
TEMPER_B   == <<40236, 22144>>    \* 0x9D2C5680
TEMPER_C   == <<61382, 0>>        \* 0xEFC60000
HI_MASK    == <<65535, 0>>        \* 0xFFFF0000

-----------------------------------------------------------------------------
(* class MersenneTwister (GYU_Decode.py:17-73, GYU_Encode.py:17-63)        *)

N_MT == 624

\* __init__: mt = [0] * 624, index = 624
MTNew == [mt |-> [i \in 0 .. N_MT - 1 |-> ZeroWord], index |-> N_MT]

\* one pass of the inner seeding body: returns the new <<a, idx, mt>>
SeedBody(a, idx, m) ==
    LET a1  == Lcg(a)
        val == Or32(And32(a, HI_MASK), Shr32(a1, 16))
    IN  <<Lcg(a1), idx + 1, [m EXCEPT ![idx] = val]>>

RECURSIVE SeedInner(_, _)
\* for _ in range(6): if idx >= 624: break; ...   (st = <<a, idx, mt>>)
SeedInner(st, j) ==
    IF j = 6 \/ st[2] >= N_MT THEN st
    ELSE LET st1 == SeedBody(st[1], st[2], st[3])
         IN  Strict(st1, SeedInner(st1, j + 1))

RECURSIVE SeedOuter(_, _, _)
\* for _ in range(104): <inner loop>   (passes lo .. hi-1, in order)
SeedOuter(st, lo, hi) ==
    IF lo >= hi THEN st
    ELSE IF hi = lo + 1 THEN SeedInner(st, 0)
    ELSE LET mid == (lo + hi) \div 2
             st1 == SeedOuter(st, lo, mid)
         IN  Strict(st1, SeedOuter(st1, mid, hi))

\* y = (mt[i] & 0x80000000) | (mt[j] & 0x7FFFFFFF);
\* mt[i] = mt[k] ^ (y >> 1) ^ (0x9908B0DF if y & 1 else 0)
TwistWord(m, i, j, k) ==
    LET y == Or32(And32(m[i], UPPER_MASK), And32(m[j], LOWER_MASK))
    IN  [m EXCEPT ![i] = Xor32(Xor32(m[k], Shr32(y, 1)),
                               IF y[2] % 2 = 1 THEN MATRIX_A ELSE ZeroWord)]

\* the body of _twist's loops at position i
TwistStep(m, i) ==
    IF i < 227 THEN TwistWord(m, i, i + 1, i + 397)
    ELSE IF i < 623 THEN TwistWord(m, i, i + 1, i - 227)
    ELSE TwistWord(m, 623, 0, 396)

RECURSIVE TwistRange(_, _, _)
\* TwistStep applied in place for i = lo, lo+1, .., hi-1, in that order
TwistRange(m, lo, hi) ==
    IF lo >= hi THEN m
    ELSE IF hi = lo + 1 THEN TwistStep(m, lo)
    ELSE LET mid == (lo + hi) \div 2
             m1  == TwistRange(m, lo, mid)
         IN  Strict(m1, TwistRange(m1, mid, hi))

\* a reload that leaves the cursor one past the first regenerated word
Twist_CursorOne(r) == [mt |-> TwistRange(r.mt, 0, N_MT), index |-> 1]

\* _twist: regenerate all 624 words, then self.index = 0
Twist(r) == [mt |-> TwistRange(r.mt, 0, N_MT), index |-> 0]

\* seed(seed): fill the state from the LCG, then _twist()
MTSeed(r, s) == Twist([r EXCEPT !.mt = SeedOuter(<<s, 0, r.mt>>, 0, 104)[3]])

\* the tempering of next()
Temper(y0) ==
    LET y1 == Xor32(y0, Shr32(y0, 11))
        y2 == Xor32(y1, And32(Shl32(y1, 7), TEMPER_B))
        y3 == Xor32(y2, And32(Shl32(y2, 15), TEMPER_C))
    IN  Xor32(y3, Shr32(y3, 18))

\* next(): returns [val, rng]
MTNext(r) ==
    LET r1 == IF r.index >= N_MT THEN Twist(r) ELSE r
    IN  [val |-> Temper(r1.mt[r1.index]),
         rng |-> [r1 EXCEPT !.index = r1.index + 1]]

\* rand(max_val): returns [val, rng]; val is a plain integer.  No word is
\* drawn when max_val <= 0.
MTRand(r, max_val) ==
    IF max_val <= 0 THEN [val |-> 0, rng |-> r]
    ELSE LET d == MTNext(r)
         IN  [val |-> Mod32(d.val, max_val), rng |-> d.rng]

-----------------------------------------------------------------------------
(* generate_key_table (RLD_Decryptor.py:94-131): the engine written out    *)
(* inline                                                                  *)

N_KEYS == 256

RECURSIVE KtSeedInner(_, _)
KtSeedInner(st, j) ==
    IF j = 6 \/ st[2] >= 624 THEN st
    ELSE LET a   == st[1]
             a1  == Lcg(a)
             val == Or32(And32(a, HI_MASK), Shr32(a1, 16))
             st1 == <<Lcg(a1), st[2] + 1, [st[3] EXCEPT ![st[2]] = val]>>
         IN  Strict(st1, KtSeedInner(st1, j + 1))

RECURSIVE KtSeedOuter(_, _, _)
\* for _ in range(104): <inner loop>   (passes lo .. hi-1, in order)
KtSeedOuter(st, lo, hi) ==
    IF lo >= hi THEN st
    ELSE IF hi = lo + 1 THEN KtSeedInner(st, 0)
    ELSE LET mid == (lo + hi) \div 2
             st1 == KtSeedOuter(st, lo, mid)
         IN  Strict(st1, KtSeedOuter(st1, mid, hi))

KtMix(m, i, j, k) ==
    LET y == Or32(And32(m[i], UPPER_MASK), And32(m[j], LOWER_MASK))
    IN  [m EXCEPT ![i] = Xor32(Xor32(m[k], Shr32(y, 1)),
                               IF y[2] % 2 = 1 THEN MATRIX_A ELSE ZeroWord)]

RECURSIVE KtLoopA(_, _, _)
\* for i in range(227): ... mt[i + 397] ...
KtLoopA(m, lo, hi) ==
    IF lo >= hi THEN m
    ELSE IF hi = lo + 1 THEN KtMix(m, lo, lo + 1, lo + 397)
    ELSE LET mid == (lo + hi) \div 2
             m1  == KtLoopA(m, lo, mid)
         IN  Strict(m1, KtLoopA(m1, mid, hi))

RECURSIVE KtLoopB(_, _, _)
\* for i in range(227, 623): ... mt[i - 227] ...
KtLoopB(m, lo, hi) ==
    IF lo >= hi THEN m
    ELSE IF hi = lo + 1 THEN KtMix(m, lo, lo + 1, lo - 227)
    ELSE LET mid == (lo + hi) \div 2
             m1  == KtLoopB(m, lo, mid)
         IN  Strict(m1, KtLoopB(m1, mid, hi))

\* a key entry that leaves out the final XOR with the seed
KtKey_NoSeedXor(m, i, s) ==
    LET y0 == m[i]
        y1 == Xor32(y0, Shr32(y0, 11))
        y2 == Xor32(y1, And32(Shl32(y1, 7), TEMPER_B))
        y3 == Xor32(y2, And32(Shl32(y2, 15), TEMPER_C))
    IN  Xor32(y3, Shr32(y3, 18))

\* keys.append((temper(mt[i]) ^ seed) & 0xFFFFFFFF) for i in range(256)
KtKey(m, i, s) ==
    LET y0 == m[i]
        y1 == Xor32(y0, Shr32(y0, 11))
        y2 == Xor32(y1, And32(Shl32(y1, 7), TEMPER_B))
        y3 == Xor32(y2, And32(Shl32(y2, 15), TEMPER_C))
        y4 == Xor32(y3, Shr32(y3, 18))
    IN  Xor32(y4, s)

generate_key_table(s) ==
    LET m0 == KtSeedOuter(<<s, 0, [i \in 0 .. 623 |-> ZeroWord]>>, 0, 104)[3]
        m1 == KtLoopA(m0, 0, 227)
        m2 == KtLoopB(m1, 227, 623)
        m3 == KtMix(m2, 623, 0, 396)
    IN  [i \in 1 .. N_KEYS |-> KtKey(m3, i - 1, s)]

-----------------------------------------------------------------------------
(* The engine as a state machine: construct, seed once, draw.             *)

NoSeed == <<>>

\* 0, 1, the two seeds of KNOWN_SEEDS (0x20100806, 0xAE85A916), 0xFFFFFFFF
SeedSet == { <<0, 0>>, <<0, 1>>, <<8208, 2054>>, <<44677, 43286>>,
             <<65535, 65535>> }

MaxDraws == 626

MTIdle ==
    /\ mt = <<>>
    /\ index = 0
    /\ mtSeed = NoSeed
    /\ drawn = <<>>
    /\ keys = <<>>

ShIdle ==
    /\ shIn = <<>> /\ shKey = ZeroWord /\ shSize = 0 /\ shPc = 0
    /\ shEnc = None /\ shDec = None /\ shFwd = None /\ shRev = None
    /\ shBack = None /\ shPairs = <<>>

LzIdle == lzIn = <<>> /\ lzComp = None /\ lzOut = None

L2Idle ==
    /\ l2Data = <<>> /\ l2Size = 0 /\ l2Out = <<>> /\ l2Pos = 0
    /\ l2Bits = 0 /\ l2Count = 0 /\ l2Pc = "idle" /\ l2Ret = None

RlIdle ==
    /\ rlSeed = <<>> /\ rlKeys = <<>> /\ rlData = None
    /\ rlOnce = None /\ rlTwice = None

GyIdle ==
    /\ gyImg = <<>> /\ gyKey = ZeroWord /\ gyRaw = None /\ gyAlphaRaw = None
    /\ gyFile = None /\ gyRgb = None /\ gyAlphaOut = None /\ gyPc = "idle"

TsvIdle ==
    /\ tsvFile = <<>> /\ tsvPristine = <<>> /\ tsvPos = 0
    /\ tsvLines = <<>> /\ tsvOut = None /\ tsvPc = "idle"

BaIdle ==
    /\ baTool = "" /\ baFiles = <<>> /\ baPos = 0 /\ baProcessed = {}
    /\ baReported = {} /\ baPc = "idle"

RuIdle ==
    /\ ruMode = "" /\ ruFiles = <<>> /\ ruDefExists = FALSE
    /\ ruDefTable = <<>> /\ ruPos = 0 /\ ruTable = <<>> /\ ruSeen = <<>>
    /\ ruParsedAt = <<>> /\ ruPc = "idle"

PrIdle == prData = <<>> /\ prCmds = <<>> /\ prPc = "idle"

ExIdle ==
    /\ exCmds = <<>> /\ exTable = <<>> /\ exPos = 0 /\ exEntries = <<>>
    /\ exBranch = <<>> /\ exPc = "idle"

LkIdle ==
    /\ lkIn = <<>> /\ lkComp = <<>> /\ lkEnc = <<>> /\ lkDec = <<>> /\ lkK = 0

DzIdle == dzData = <<>> /\ dzSize = 0 /\ dzRet = None

\* the variables of the codec models in their idle state
CodecIdle ==
    MTIdle /\ ShIdle /\ LzIdle /\ L2Idle /\ RlIdle /\ GyIdle /\ TsvIdle

\* the variables of the tool models in their idle state
ToolIdle == BaIdle /\ RuIdle /\ PrIdle /\ ExIdle /\ LkIdle /\ DzIdle

MTInit ==
    /\ ShIdle /\ LzIdle /\ L2Idle /\ RlIdle /\ GyIdle /\ TsvIdle /\ ToolIdle
    /\ mt = MTNew.mt
    /\ index = MTNew.index
    /\ mtSeed = NoSeed
    /\ drawn = <<>>
    /\ keys = <<>>

\* rng = MersenneTwister(); rng.seed(s)
DoSeed(s) ==
    /\ mtSeed = NoSeed
    /\ LET r == MTSeed([mt |-> mt, index |-> index], s)
       IN  mt' = r.mt /\ index' = r.index
    /\ mtSeed' = s
    /\ UNCHANGED <<drawn, keys, exceptMt>>

\* rng.next()
DoNext ==
    /\ mtSeed # NoSeed
    /\ keys # <<>>
    /\ Len(drawn) < MaxDraws
    /\ LET r == MTNext([mt |-> mt, index |-> index])
       IN  /\ mt' = r.rng.mt
           /\ index' = r.rng.index
           /\ drawn' = Append(drawn, r.val)
    /\ UNCHANGED <<mtSeed, keys, exceptMt>>

\* keys = generate_key_table(seed)
DoKeyTable ==
    /\ mtSeed # NoSeed
    /\ keys = <<>>
    /\ keys' = generate_key_table(mtSeed)
    /\ UNCHANGED <<mt, index, mtSeed, drawn, exceptMt>>

MTStep ==
    \/ \E s \in SeedSet : DoSeed(s)
    \/ DoNext
    \/ DoKeyTable

SpecMT == MTInit /\ [][MTStep]_vars

Min(a, b) == IF a < b THEN a ELSE b

\* the step is rng.seed(s) / the step is one rng.next()
IsSeedStep == mtSeed = NoSeed /\ mtSeed' # NoSeed
IsDrawStep == Len(drawn') = Len(drawn) + 1

\* C6: generate_key_table(seed) has exactly 256 entries, and its i-th entry
\* is the i-th value next() returns from a MersenneTwister freshly seeded
\* with the same seed, XORed with the seed.
C6_KeyTableIsSeededDraws ==
    keys # <<>> =>
        /\ Len(keys) = 256
        /\ \A i \in 1 .. Min(Len(drawn), 256) :
               keys[i] = Xor32(drawn[i], mtSeed)

\* C6 witness: all 256 entries have been compared, for a non-zero seed
C6_Witness ==
    /\ keys # <<>>
    /\ Len(drawn) >= 256
    /\ mtSeed = <<8208, 2054>>

-----------------------------------------------------------------------------
(* The byte shuffles                                                       *)

\* an exchange that stores one of the two bytes only
Swap_Overwrite(data, i, j) == [data EXCEPT ![i + 1] = data[j + 1]]

\* data[i], data[j] = data[j], data[i]   (0-based i, j)
Swap(data, i, j) ==
    [data EXCEPT ![i + 1] = data[j + 1], ![j + 1] = data[i + 1]]

RECURSIVE ForwardLoop(_, _, _, _)
\* for _ in range(10): idx1 = rng.rand(size); idx2 = rng.rand(size);
\*     if idx1 < bound and idx2 < bound: swap         (passes t .. 9)
ForwardLoop(r, data, size, t) ==
    IF t = 10 THEN data
    ELSE The({ The({ The({ ForwardLoop(r2.rng, d, size, t + 1) :
                 d  \in {IF r1.val < Len(data) /\ r2.val < Len(data)
                         THEN Swap(data, r1.val, r2.val) ELSE data} }) :
                 r2 \in {MTRand(r1.rng, size)} }) :
                 r1 \in {MTRand(r, size)} })

\* shuffle_compressed(data, key, size), GYU_Decode.py:76-88
shuffle_compressed(data, key, size) ==
    The({ ForwardLoop(r, data, size, 0) : r \in {MTSeed(MTNew, key)} })

\* unscramble(data, seed, size), GYU_Decode.py:354-363
unscramble(data, seed, size) ==
    The({ ForwardLoop(r, data, size, 0) : r \in {MTSeed(MTNew, seed)} })

\* scramble(data, seed), GYU_Encode.py:66-78: size = len(data)
scramble(data, seed) ==
    The({ ForwardLoop(r, data, Len(data), 0) : r \in {MTSeed(MTNew, seed)} })

RECURSIVE DrawPairs(_, _, _, _)
\* pairs = []; for _ in range(10): pairs.append((rand(size), rand(size)))
DrawPairs(r, size, pairs, t) ==
    IF t = 10 THEN pairs
    ELSE The({ The({ The({ DrawPairs(r2.rng, size, ps, t + 1) :
                 ps \in {Append(pairs, <<r1.val, r2.val>>)} }) :
                 r2 \in {MTRand(r1.rng, size)} }) :
                 r1 \in {MTRand(r, size)} })

RECURSIVE ReverseLoop_SkipFirstDrawn(_, _, _)
\* a reverse pass that never applies the pair drawn first
ReverseLoop_SkipFirstDrawn(data, pairs, t) ==
    IF t <= 1 THEN data
    ELSE The({ ReverseLoop_SkipFirstDrawn(d, pairs, t - 1) :
               d \in {IF pairs[t][1] < Len(data) /\ pairs[t][2] < Len(data)
                      THEN Swap(data, pairs[t][1], pairs[t][2])
                      ELSE data} })

RECURSIVE ReverseLoop(_, _, _)
\* for idx1, idx2 in reversed(pairs): if both < len(data): swap
\* (t = number of pairs still to apply; the next one is pairs[t])
ReverseLoop(data, pairs, t) ==
    IF t = 0 THEN data
    ELSE The({ ReverseLoop(d, pairs, t - 1) :
               d \in {IF pairs[t][1] < Len(data) /\ pairs[t][2] < Len(data)
                      THEN Swap(data, pairs[t][1], pairs[t][2])
                      ELSE data} })

\* unshuffle_decompressed(data, key, size), GYU_Decode.py:91-108, with the
\* list `pairs` it built (lines 96-101) kept beside the returned buffer
unshuffle_run(data, key, size) ==
    The({ [data |-> ReverseLoop(data, pairs, Len(pairs)), pairs |-> pairs] :
          pairs \in { The({ DrawPairs(r, size, <<>>, 0) :
                            r \in {MTSeed(MTNew, key)} }) } })

unshuffle_decompressed(data, key, size) == unshuffle_run(data, key, size).data

(* Runs of the shuffles on one input.                                      *)

MaxBufLen == 5
MaxSlack  == 1

\* 0, 1, 2 and the default RLD seed 0x20100806
ShKeySet == { <<0, 0>>, <<0, 1>>, <<0, 2>>, <<8208, 2054>> }

\* buffers of length n: all bytes distinct, and two alternating values
ShBufSet(n) == { [i \in 1 .. n |-> i - 1], [i \in 1 .. n |-> (i - 1) % 2] }

ShInit ==
    /\ MTIdle /\ LzIdle /\ L2Idle /\ RlIdle /\ GyIdle /\ TsvIdle /\ ToolIdle
    /\ \E n \in 0 .. MaxBufLen :
          /\ shIn \in ShBufSet(n)
          /\ shSize \in n .. n + MaxSlack
    /\ shKey \in ShKeySet
    /\ shPc = 0
    /\ shEnc = None /\ shDec = None /\ shFwd = None /\ shRev = None
    /\ shBack = None /\ shPairs = <<>>

\* the encoder's scramble of the buffer
RunScramble ==
    /\ shPc = 0
    /\ shEnc' = scramble(shIn, shKey)
    /\ shPc' = 1
    /\ UNCHANGED <<shIn, shKey, shSize, shDec, shFwd, shRev, shBack, shPairs,
                   exceptSh>>

\* the decoder's unscramble of the scrambled buffer
RunUnscramble ==
    /\ shPc = 1
    /\ shDec' = unscramble(shEnc, shKey, shSize)
    /\ shPc' = 2
    /\ UNCHANGED <<shIn, shKey, shSize, shEnc, shFwd, shRev, shBack, shPairs,
                   exceptSh>>

RunShuffleCompressed ==
    /\ shPc = 2
    /\ shFwd' = shuffle_compressed(shIn, shKey, shSize)
    /\ shPc' = 3
    /\ UNCHANGED <<shIn, shKey, shSize, shEnc, shDec, shRev, shBack, shPairs,
                   exceptSh>>

RunUnshuffleDecompressed ==
    /\ shPc = 3
    /\ \E run \in {unshuffle_run(shIn, shKey, shSize)} :
           shRev' = run.data /\ shPairs' = run.pairs
    /\ shPc' = 4
    /\ UNCHANGED <<shIn, shKey, shSize, shEnc, shDec, shFwd, shBack,
                   exceptSh>>

\* unshuffle_decompressed applied to the output of shuffle_compressed
RunUnshuffleOfShuffled ==
    /\ shPc = 4
    /\ shBack' = unshuffle_decompressed(shFwd, shKey, shSize)
    /\ shPc' = 5
    /\ UNCHANGED <<shIn, shKey, shSize, shEnc, shDec, shFwd, shRev, shPairs,
                   exceptSh>>

ShStep ==
    \/ RunScramble
    \/ RunUnscramble
    \/ RunShuffleCompressed
    \/ RunUnshuffleDecompressed
    \/ RunUnshuffleOfShuffled

SpecShuffle == ShInit /\ [][ShStep]_vars

\* C3: with size = len(b), the forward 10-pair shuffle applied twice with
\* the same key (scramble by the encoder, then unscramble by the decoder)
\* returns the original buffer.
C3_ShuffleTwiceIsIdentity ==
    (shPc >= 2 /\ shSize = Len(shIn)) => shDec = shIn

\* the swaps a run actually performs: both indices inside the buffer and
\* different from each other, as unordered pairs
EffectiveSwaps ==
    { {pr[1], pr[2]} : pr \in
        { shPairs[t] : t \in { u \in 1 .. Len(shPairs) :
              /\ shPairs[u][1] < Len(shIn)
              /\ shPairs[u][2] < Len(shIn)
              /\ shPairs[u][1] # shPairs[u][2] } } }

SwapsCommute ==
    \A a \in EffectiveSwaps : \A b \in EffectiveSwaps :
        a = b \/ a \cap b = {}

\* C5 as stated: shuffle_compressed (forward order) and
\* unshuffle_decompressed (reverse order) produce the same final buffer for
\* every buffer, key and size.
C5_ForwardEqualsReverse ==
    shPc >= 4 => shFwd = shRev

\* C5 amended: the two produce the same final buffer whenever the swaps
\* actually performed (pairs with both indices inside the buffer and
\* idx1 # idx2) are pairwise disjoint or the same pair.
C5_ForwardEqualsReverseWhenDisjoint ==
    (shPc >= 4 /\ SwapsCommute) => shFwd = shRev

\* C5 witness: two different disjoint swaps were performed and moved bytes
C5_Witness ==
    /\ shPc >= 4
    /\ SwapsCommute
    /\ Cardinality(EffectiveSwaps) >= 2
    /\ shFwd # shIn

-----------------------------------------------------------------------------
(* LZSS, Retouch Engine variant                                            *)

WINDOW_SIZE == 4096
WINDOW_INIT == 4078      \* 0xFEE
MIN_MATCH   == 3
MAX_MATCH   == 18

\* x & 0xFFF, also for negative x
WMask(x) == x % WINDOW_SIZE

\* bytearray(4096)
ZeroWindow == [i \in 0 .. WINDOW_SIZE - 1 |-> 0]

\* 0-based read of a byte sequence
At(data, i) == data[i + 1]

(* compress_lzss, GYU_Encode.py:81-144.  The encoder state is the record   *)
(* [window, win_pos, output, pos, flag_byte, flag_bit, pending].           *)

RECURSIVE MatchLen(_, _, _, _)
\* while (match_len < MAX_MATCH and pos + match_len < len(data) and
\*        window[(win_pos - back + match_len) & MASK] == data[pos + match_len])
MatchLen(e, data, back, match_len) ==
    IF /\ match_len < MAX_MATCH
       /\ e.pos + match_len < Len(data)
       /\ e.window[WMask(e.win_pos - back + match_len)]
              = At(data, e.pos + match_len)
    THEN MatchLen(e, data, back, match_len + 1)
    ELSE match_len

RECURSIVE BestMatch(_, _, _, _, _)
\* for back in range(1, min(pos + 1, WINDOW_SIZE)): keep the longest match
\* of at least MIN_MATCH (the first one found wins ties); best = <<len, off>>
BestMatch(e, data, back, stop, best) ==
    IF back >= stop THEN best
    ELSE The({ The({ BestMatch(e, data, back + 1, stop, b1) :
                 b1 \in {IF match_len >= MIN_MATCH /\ match_len > best[1]
                         THEN <<match_len, WMask(e.win_pos - back)>>
                         ELSE best} }) :
                 match_len \in {MatchLen(e, data, back, 0)} })

RECURSIVE EncWrite(_, _, _, _)
\* for i in range(n): window[win_pos] = data[pos + i]; win_pos += 1 (mod)
\* (passes i .. n-1); returns <<window, win_pos>>
EncWrite(w, data, from, n) ==
    IF n = 0 THEN w
    ELSE The({ EncWrite(w1, data, from + 1, n - 1) :
                 w1 \in {<<[w[1] EXCEPT ![w[2]] = At(data, from)],
                           WMask(w[2] + 1)>>} })

\* def flush()
EncFlush(e) ==
    [e EXCEPT !.output    = IF e.flag_bit > 0
                            THEN e.output \o <<e.flag_byte>> \o e.pending
                            ELSE e.output,
              !.flag_byte = 0,
              !.flag_bit  = 0,
              !.pending   = <<>>]

\* "Find best match in window", GYU_Encode.py:109-121
EncFindBest(e, data) ==
    BestMatch(e, data, 1,
              IF e.pos + 1 < WINDOW_SIZE THEN e.pos + 1 ELSE WINDOW_SIZE,
              <<0, 0>>)

\* one pass of the main loop (one token), GYU_Encode.py:108-141
EncToken(e, data) ==
    The({
        LET best_len == best[1]
            best_off == best[2]
            isRef    == best_len >= MIN_MATCH
            n        == IF isRef THEN best_len ELSE 1
            pend     == IF isRef
                        THEN e.pending \o
                             << best_off % 256,
                                ((best_off \div 256) * 16)
                                    + ((best_len - 3) % 16) >>
                        ELSE Append(e.pending, At(data, e.pos))
            fbyte    == IF isRef THEN e.flag_byte
                        ELSE e.flag_byte + (2 ^ e.flag_bit)
        IN  The({ The({ IF e1.flag_bit = 8 THEN EncFlush(e1) ELSE e1 :
                      e1 \in {[window    |-> w[1],  win_pos  |-> w[2],
                               output    |-> e.output, pos   |-> e.pos + n,
                               flag_byte |-> fbyte,
                               flag_bit  |-> e.flag_bit + 1,
                               pending   |-> pend]} }) :
                      w \in {EncWrite(<<e.window, e.win_pos>>, data,
                                      e.pos, n)} }) :
        best \in {EncFindBest(e, data)} })

EncInit ==
    [window |-> ZeroWindow, win_pos |-> WINDOW_INIT, output |-> <<>>,
     pos |-> 0, flag_byte |-> 0, flag_bit |-> 0, pending |-> <<>>]

RECURSIVE EncLoop(_, _)
\* while pos < len(data): <token>
EncLoop(e, data) ==
    IF e.pos < Len(data)
    THEN The({ EncLoop(e1, data) : e1 \in {EncToken(e, data)} })
    ELSE e

compress_lzss(data) ==
    The({ EncFlush(e).output : e \in {EncLoop(EncInit, data)} })

(* decompress_lzss, GYU_Decode.py:111-157.  The decoder state is the       *)
(* record [window, win_pos, output, pos, flags, stop]; stop records a      *)
(* `break`.  output_size is an integer, or NoSize for the default None.  *)

\* Python truthiness of output_size
Truthy(output_size) == output_size # NoSize /\ output_size # 0

RECURSIVE DecCopy(_, _, _, _)
\* for i in range(length): byte = window[(offset + i) & 0xFFF];
\*     output.append(byte); window[win_pos] = byte; win_pos += 1 (mod)
\* st = <<window, win_pos, output>>
DecCopy(st, offset, i, length) ==
    IF i = length THEN st
    ELSE The({ The({ DecCopy(st1, offset, i + 1, length) :
                 st1  \in {<< [st[1] EXCEPT ![st[2]] = byte],
                              WMask(st[2] + 1), Append(st[3], byte) >>} }) :
                 byte \in {st[1][WMask(offset + i)]} })

\* one pass of the main loop, GYU_Decode.py:120-155
DecToken(d, data, output_size) ==
    LET sh     == d.flags \div 2
        refill == (sh \div 256) % 2 = 0
        flags1 == IF refill THEN At(data, d.pos) + 65280 ELSE sh
        pos1   == IF refill THEN d.pos + 1 ELSE d.pos
        d1     == [d EXCEPT !.flags = flags1, !.pos = pos1]
    IN  IF pos1 >= Len(data) THEN [d1 EXCEPT !.stop = TRUE]
        ELSE IF flags1 % 2 = 1
        THEN LET byte == At(data, pos1)
             IN  [d1 EXCEPT !.pos     = pos1 + 1,
                            !.output  = Append(d.output, byte),
                            !.window  = [d.window EXCEPT ![d.win_pos] = byte],
                            !.win_pos = WMask(d.win_pos + 1)]
        ELSE IF pos1 + 1 >= Len(data) THEN [d1 EXCEPT !.stop = TRUE]
        ELSE LET b1     == At(data, pos1)
                 b2     == At(data, pos1 + 1)
                 offset == ((b2 \div 16) * 256) + b1
                 length == (b2 % 16) + 3
             IN  The({ [d1 EXCEPT !.pos     = pos1 + 2,
                                  !.window  = c[1],
                                  !.win_pos = c[2],
                                  !.output  = c[3],
                                  !.stop    = Truthy(output_size)
                                              /\ Len(c[3]) >= output_size] :
                       c \in {DecCopy(<<d.window, d.win_pos, d.output>>,
                                      offset, 0, length)} })

DecInit ==
    [window |-> ZeroWindow, win_pos |-> WINDOW_INIT, output |-> <<>>,
     pos |-> 0, flags |-> 0, stop |-> FALSE]

RECURSIVE DecLoop(_, _, _)
\* while pos < len(data): <token or break>
DecLoop(d, data, output_size) ==
    IF d.pos < Len(data) /\ ~d.stop
    THEN The({ DecLoop(d1, data, output_size) :
                 d1 \in {DecToken(d, data, output_size)} })
    ELSE d

\* output[:n]
Prefix(out, n) == SubSeq(out, 1, IF n < Len(out) THEN n ELSE Len(out))

\* return bytes(output[:output_size] if output_size else output)
decompress_lzss(data, output_size) ==
    The({ IF Truthy(output_size) THEN Prefix(out, output_size) ELSE out :
          out \in {DecLoop(DecInit, data, output_size).output} })

(* compress, then decompress with the original length                      *)

MaxLzLen == 6

\* the byte values the inputs are built from
LzBytes == {0, 1}

RECURSIVE SeqsUpTo(_, _)
\* all sequences over S of length at most n
SeqsUpTo(S, n) ==
    IF n = 0 THEN { <<>> }
    ELSE LET shorter == SeqsUpTo(S, n - 1)
         IN  shorter \cup { Append(q, b) : q \in shorter, b \in S }

LzInit ==
    /\ MTIdle /\ ShIdle /\ L2Idle /\ RlIdle /\ GyIdle /\ TsvIdle /\ ToolIdle
    /\ lzIn \in SeqsUpTo(LzBytes, MaxLzLen)
    /\ lzComp = None
    /\ lzOut = None

LzCompress ==
    /\ lzComp = None
    /\ lzComp' = compress_lzss(lzIn)
    /\ UNCHANGED <<lzIn, lzOut, exceptLz>>

LzDecompress ==
    /\ lzComp # None
    /\ lzOut = None
    /\ lzOut' = decompress_lzss(lzComp, Len(lzIn))
    /\ UNCHANGED <<lzIn, lzComp, exceptLz>>

LzStep == LzCompress \/ LzDecompress

SpecLzss == LzInit /\ [][LzStep]_vars

\* C1: decompress_lzss(compress_lzss(x), len(x)) returns exactly x.
C1_LzssRoundTrip == lzOut # None => lzOut = lzIn

-----------------------------------------------------------------------------
(* decompress_lzss2 (LZSS2 / "ungyu"), GYU_Decode.py:159-239               *)
(* The reader state is the record [pos, bits, count] (pos, saved_bits,     *)
(* saved_count).                                                           *)

RECURSIVE GetBitsFill(_, _, _)
\* while bits > saved_count: if pos >= len(data): return 0; <load a byte>
\* returns [rd, short]: short = TRUE for the early `return 0`
GetBitsFill(rd, data, bits) ==
    IF bits > rd.count
    THEN IF rd.pos >= Len(data) THEN [rd |-> rd, short |-> TRUE]
         ELSE GetBitsFill([pos   |-> rd.pos + 1,
                           bits  |-> (rd.bits * 256) + At(data, rd.pos),
                           count |-> rd.count + 8], data, bits)
    ELSE [rd |-> rd, short |-> FALSE]

\* get_bits(bits): returns [val, rd].  saved_bits < 2^saved_count <= 2^9, so
\* (saved_bits & mask) >> extra_bits is saved_bits \div 2^extra_bits and
\* saved_bits & ~mask is saved_bits % 2^extra_bits.
GetBits(rd, data, bits) ==
    LET f == GetBitsFill(rd, data, bits)
    IN  IF f.short THEN [val |-> 0, rd |-> f.rd]
        ELSE LET extra_bits == f.rd.count - bits
             IN  [val |-> f.rd.bits \div (2 ^ extra_bits),
                  rd  |-> [pos   |-> f.rd.pos,
                           bits  |-> f.rd.bits % (2 ^ extra_bits),
                           count |-> f.rd.count - bits]]

\* get_next_byte(): returns [val, rd]
GetNextByte(rd, data) ==
    IF rd.pos >= Len(data) THEN [val |-> 0, rd |-> rd]
    ELSE [val |-> At(data, rd.pos), rd |-> [rd EXCEPT !.pos = rd.pos + 1]]

RECURSIVE L2Copy(_, _, _, _)
\* while n > 0: if len(output) >= out_end: break
\*     src = len(output) + p; append output[src] if 0 <= src < len else 0
L2Copy(out, n, p, out_end) ==
    IF n > 0 /\ Len(out) < out_end
    THEN LET src == Len(out) + p
         IN  The({ L2Copy(o1, n - 1, p, out_end) :
                   o1 \in {Append(out, IF 0 <= src /\ src < Len(out)
                                       THEN At(out, src) ELSE 0)} })
    ELSE out

\* a reference length that leaves out the final `n += 1`
L2RefCount_NoIncrement(n) == n - 1

\* n += 1 (GYU_Decode.py:223): the number of bytes a reference copies
L2RefCount(n) == n + 1

\* long back-reference, after its two offset bytes b1, b2 were read:
\* n = 0xFFFF0000 | (b1 << 8) | b2; p = (n >> 3) | 0xFFFFE000, a negative
\* 32-bit offset; n &= 7; if n == 0, the count is the next byte and a
\* zero count ends the decode
L2Long(out, rd, data, out_end, v) ==
    IF v % 8 # 0
    THEN [out |-> L2Copy(out, L2RefCount((v % 8) + 1), (v \div 8) - 8192,
                         out_end),
          rd  |-> rd, brk |-> FALSE]
    ELSE The({ IF m.val = 0
               THEN [out |-> out, rd |-> m.rd, brk |-> TRUE]
               ELSE [out |-> L2Copy(out, L2RefCount(m.val),
                                    (v \div 8) - 8192, out_end),
                     rd  |-> m.rd, brk |-> FALSE] :
               m \in {GetNextByte(rd, data)} })

\* short back-reference: n = get_bits(2) + 1; p = byte | 0xFFFFFF00, a
\* negative 32-bit offset
L2Short(out, rd, data, out_end) ==
    The({ The({ [out |-> L2Copy(out, L2RefCount(g3.val + 1), pb.val - 256,
                                out_end),
                 rd  |-> pb.rd, brk |-> FALSE] :
                pb \in {GetNextByte(g3.rd, data)} }) :
          g3 \in {GetBits(rd, data, 2)} })

\* the branch taken when the literal flag is 0
L2Ref(out, rd, data, out_end) ==
    The({ IF g2.val # 0
          THEN The({ The({ L2Long(out, b2.rd, data, out_end,
                                  (b1.val * 256) + b2.val) :
                           b2 \in {GetNextByte(b1.rd, data)} }) :
                     b1 \in {GetNextByte(g2.rd, data)} })
          ELSE L2Short(out, g2.rd, data, out_end) :
          g2 \in {GetBits(rd, data, 1)} })

\* one pass of `while len(output) < out_end`, entered with the loop
\* condition true: returns [out, rd, brk] (brk: the pass ended in `break`)
L2Pass(out, rd, data, out_end) ==
    The({ IF g1.val # 0
          THEN The({ [out |-> Append(out, b.val), rd |-> b.rd,
                      brk |-> FALSE] :
                     b \in {GetNextByte(g1.rd, data)} })
          ELSE L2Ref(out, g1.rd, data, out_end) :
          g1 \in {GetBits(rd, data, 1)} })

RECURSIVE L2Loop(_, _, _, _)
\* while len(output) < out_end: <one pass>
L2Loop(out, rd, data, out_end) ==
    IF Len(out) < out_end
    THEN The({ IF r.brk THEN r.out ELSE L2Loop(r.out, r.rd, data, out_end) :
               r \in {L2Pass(out, rd, data, out_end)} })
    ELSE out

\* decompress_lzss2(data, output_size)
decompress_lzss2(data, output_size) ==
    The({ Prefix(L2Loop(<<b.val>>, b.rd, data, output_size), output_size) :
          b \in {GetNextByte([pos |-> 0, bits |-> 0, count |-> 0], data)} })

MaxL2Len == 4
MaxL2Out == 4

\* 0x00 (bits 00: short reference; a zero count), 0x40 (bits 01: long
\* reference), 0x80 (bit 1: literal), 0xFF (offset -1; low three bits 7)
L2Bytes == {0, 64, 128, 255}

L2Init ==
    MTIdle /\ ShIdle /\ LzIdle /\ L2Idle /\ RlIdle /\ GyIdle /\ TsvIdle
        /\ ToolIdle

\* decompress_lzss2(data, output_size) is entered: output = bytearray(),
\* pos = 0, saved_bits = 0, saved_count = 0, out_end = output_size
L2Call ==
    /\ l2Pc = "idle"
    /\ l2Data' \in SeqsUpTo(L2Bytes, MaxL2Len)
    /\ l2Size' \in 0 .. MaxL2Out
    /\ l2Out' = <<>> /\ l2Pos' = 0 /\ l2Bits' = 0 /\ l2Count' = 0
    /\ l2Pc' = "first"
    /\ UNCHANGED <<l2Ret, exceptL2>>

\* output.append(get_next_byte())        ("First byte is literal")
L2First ==
    /\ l2Pc = "first"
    /\ LET b == GetNextByte([pos |-> l2Pos, bits |-> l2Bits,
                             count |-> l2Count], l2Data)
       IN  /\ l2Out' = Append(l2Out, b.val)
           /\ l2Pos' = b.rd.pos
    /\ l2Pc' = "loop"
    /\ UNCHANGED <<l2Data, l2Size, l2Bits, l2Count, l2Ret, exceptL2>>

\* one pass of the main loop
L2Iterate ==
    /\ l2Pc = "loop"
    /\ Len(l2Out) < l2Size
    /\ \E r \in {L2Pass(l2Out, [pos |-> l2Pos, bits |-> l2Bits,
                                count |-> l2Count], l2Data, l2Size)} :
           /\ l2Out' = r.out
           /\ l2Pos' = r.rd.pos
           /\ l2Bits' = r.rd.bits
           /\ l2Count' = r.rd.count
           /\ IF r.brk
              THEN l2Pc' = "done" /\ l2Ret' = Prefix(r.out, l2Size)
              ELSE l2Pc' = "loop" /\ l2Ret' = l2Ret
    /\ UNCHANGED <<l2Data, l2Size, exceptL2>>

\* the loop condition fails: return bytes(output[:output_size])
L2Return ==
    /\ l2Pc = "loop"
    /\ Len(l2Out) >= l2Size
    /\ l2Pc' = "done"
    /\ l2Ret' = Prefix(l2Out, l2Size)
    /\ UNCHANGED <<l2Data, l2Size, l2Out, l2Pos, l2Bits, l2Count, exceptL2>>

L2Step == L2Call \/ L2First \/ L2Iterate \/ L2Return

\* the call runs to completion: nothing else is scheduled
SpecLzss2 == L2Init /\ [][L2Step]_vars /\ WF_vars(L2Step)

\* C8: decompress_lzss2 terminates for every input and every output_size:
\* every pass of the main loop appends at least one byte to the output or
\* ends the decode, the output never grows past max(output_size, 1), and
\* the call returns.
C8_Lzss2Terminates ==
    /\ [][ /\ (l2Pc = "loop" /\ l2Pc' = "loop" => Len(l2Out') > Len(l2Out))
           /\ Len(l2Out') <= (IF l2Size > 1 THEN l2Size ELSE 1) ]_vars
    /\ <>(l2Pc = "done")

\* C8 witness: a truncated input (the reader ran past the end of the data)
\* was decoded by at least two passes, up to the full output_size
C8_Witness ==
    /\ l2Pc = "done"
    /\ l2Pos >= Len(l2Data)
    /\ Len(l2Data) <= 1
    /\ Len(l2Ret) = l2Size
    /\ l2Size = MaxL2Out

-----------------------------------------------------------------------------
(* decrypt_rld, RLD_Decryptor.py:136-150 (`table` is its argument keys)    *)

\* struct.unpack('<I', result[i:i+4])[0]: the little-endian word at the
\* 0-based offset i, as <<high half, low half>>
UnpackLE(result, i) ==
    << At(result, i + 2) + (256 * At(result, i + 3)),
       At(result, i) + (256 * At(result, i + 1)) >>

\* struct.pack_into('<I', result, i, w)
PackLE(result, i, w) ==
    [result EXCEPT ![i + 1] = w[2] % 256, ![i + 2] = w[2] \div 256,
                   ![i + 3] = w[1] % 256, ![i + 4] = w[1] \div 256]

\* a word transform that is not its own inverse
RldWord_Or(enc, key) == Or32(enc, key)

\* dec = enc ^ keys[key_idx & 0xFF], given the selected key
RldWord(enc, key) == Xor32(enc, key)

\* a key selection that never wraps to the start of the table
RldKey_Clamped(table, key_idx) ==
    table[(IF key_idx > 255 THEN 255 ELSE key_idx) + 1]

\* keys[key_idx & 0xFF]
RldKey(table, key_idx) == table[(key_idx % 256) + 1]

\* the body of the loop at offset i: st = [result, key_idx]
RldBody(st, table, i) ==
    IF i + 4 <= Len(st.result)
    THEN [result  |-> PackLE(st.result, i,
                             RldWord(UnpackLE(st.result, i),
                                     RldKey(table, st.key_idx))),
          key_idx |-> st.key_idx + 1]
    ELSE st

RECURSIVE RldLoop(_, _, _, _)
\* for i in range(0x10, block_count, 4): passes number lo .. hi - 1, pass
\* number k being the one at offset i = 0x10 + 4 * k
RldLoop(st, table, lo, hi) ==
    IF hi <= lo THEN st
    ELSE IF hi = lo + 1 THEN RldBody(st, table, 16 + (4 * lo))
    ELSE The({ RldLoop(mid, table, (lo + hi) \div 2, hi) :
               mid \in {RldLoop(st, table, lo, (lo + hi) \div 2)} })

\* block_count = min(len(data), 0xFFCF); block_count -= block_count % 4
BlockCount(n) == Min(n, 65487) - (Min(n, 65487) % 4)

\* len(range(0x10, block_count, 4))
RldPasses(block_count) ==
    IF block_count <= 16 THEN 0 ELSE (block_count - 16 + 3) \div 4

decrypt_rld(data, table) ==
    RldLoop([result |-> data, key_idx |-> 0], table, 0,
            RldPasses(BlockCount(Len(data)))).result

MaxRldLen == 25
\* a file whose words use the key table more than once (offset 0x10 + 4*256
\* is inside it), and a file longer than the 0xFFCF cap
RldWrapLen == 1051
RldCapLen  == 65497

\* the two seeds of KNOWN_SEEDS and seed 1
RldSeedSet == { <<0, 1>>, <<8208, 2054>>, <<44677, 43286>> }

\* file contents: byte at 0-based offset i is (a * i + b) % 256
RldFile(n, a, b) == [i \in 1 .. n |-> ((a * (i - 1)) + b) % 256]

RldFileSet ==
    { RldFile(n, ab[1], ab[2]) :
          n \in 0 .. MaxRldLen, ab \in { <<0, 0>>, <<0, 255>>, <<7, 3>> } }
    \cup { RldFile(RldWrapLen, 7, 3), RldFile(RldCapLen, 7, 3) }

RlInit ==
    MTIdle /\ ShIdle /\ LzIdle /\ L2Idle /\ RlIdle /\ GyIdle /\ TsvIdle
        /\ ToolIdle

\* keys = generate_key_table(seed)
RlKeyTable ==
    /\ rlKeys = <<>>
    /\ \E s \in RldSeedSet :
          /\ rlSeed' = s
          /\ rlKeys' = generate_key_table(s)
    /\ UNCHANGED <<rlData, rlOnce, rlTwice, exceptRl>>

\* data = f.read()
RlRead ==
    /\ rlKeys # <<>>
    /\ rlData = None
    /\ rlData' \in RldFileSet
    /\ UNCHANGED <<rlSeed, rlKeys, rlOnce, rlTwice, exceptRl>>

\* decrypted = decrypt_rld(data, keys)
RlDecrypt ==
    /\ rlData # None
    /\ rlOnce = None
    /\ rlOnce' = decrypt_rld(rlData, rlKeys)
    /\ UNCHANGED <<rlSeed, rlKeys, rlData, rlTwice, exceptRl>>

\* decrypt_rld applied to the decrypted bytes with the same keys
RlDecryptAgain ==
    /\ rlOnce # None
    /\ rlTwice = None
    /\ rlTwice' = decrypt_rld(rlOnce, rlKeys)
    /\ UNCHANGED <<rlSeed, rlKeys, rlData, rlOnce, exceptRl>>

RlStep == RlKeyTable \/ RlRead \/ RlDecrypt \/ RlDecryptAgain

SpecRld == RlInit /\ [][RlStep]_vars

\* C2: for every byte string x and every key table generated from a seed,
\* decrypt_rld(decrypt_rld(x, keys), keys) equals x byte for byte.
C2_DecryptTwiceIsIdentity ==
    rlTwice # None => rlTwice = rlData

\* C2 witness: a file longer than the 0xFFCF cap went through both
\* decryptions, and the first one changed it
C2_Witness ==
    /\ rlTwice # None
    /\ Len(rlData) > 65487
    /\ rlOnce # rlData

\* the number of whole words in [0x10, min(len, 0xFFCF) rounded down to 4)
RldWords(n) == IF BlockCount(n) <= 16 THEN 0 ELSE (BlockCount(n) - 16) \div 4

\* C9: decrypt_rld returns a buffer of the same length as its input; every
\* byte at an offset below 16 and every byte at an offset at or above
\* min(len, 0xFFCF) rounded down to a multiple of 4 equals the input byte;
\* the j-th 32-bit little-endian word inside [0x10, that bound) is the input
\* word XORed with keys[j mod 256].
C9_DecryptFrame ==
    rlOnce # None =>
        /\ Len(rlOnce) = Len(rlData)
        /\ \A i \in 0 .. Len(rlData) - 1 :
               (i < 16 \/ i >= BlockCount(Len(rlData))) =>
                   At(rlOnce, i) = At(rlData, i)
        /\ \A j \in 0 .. RldWords(Len(rlData)) - 1 :
               UnpackLE(rlOnce, 16 + (4 * j))
                   = Xor32(UnpackLE(rlData, 16 + (4 * j)),
                           rlKeys[(j % 256) + 1])

\* C9 witness: a decrypted file longer than the cap, whose whole words past
\* the bound were left alone while the word at index 256 was changed
C9_Witness ==
    /\ rlOnce # None
    /\ Len(rlData) >= BlockCount(Len(rlData)) + 8
    /\ UnpackLE(rlOnce, 16 + (4 * 256)) # UnpackLE(rlData, 16 + (4 * 256))

-----------------------------------------------------------------------------
(* The GYU container: png_to_gyu (GYU_Encode.py:169-367) and decode_gyu    *)
(* (GYU_Decode.py:260-352)                                                 *)

\* (n + 3) & ~3
Stride4(n) == ((n + 3) \div 4) * 4

\* data[a:b] of Python, clamped to the buffer
Slice(data, a, b) ==
    SubSeq(data, Min(a, Len(data)) + 1, Min(b, Len(data)))

\* struct.pack('<H', n), struct.pack('<I', n) for n < 2^31, and
\* struct.pack('<I', w) for a word w = <<high half, low half>>
PackU16(n) == << n % 256, n \div 256 >>
PackU32(n) == << n % 256, (n \div 256) % 256, (n \div 65536) % 256,
                 n \div 16777216 >>
PackWord(w) == << w[2] % 256, w[2] \div 256, w[1] % 256, w[1] \div 256 >>

\* struct.unpack('<H', data[off:off+2])[0] and struct.unpack('<I', ...)[0];
\* every 32-bit field but the key stays below 2^31 in the files written here
UnpackU16(data, off) == At(data, off) + (256 * At(data, off + 1))
UnpackU32(data, off) ==
    At(data, off) + (256 * At(data, off + 1)) + (65536 * At(data, off + 2))
        + (16777216 * At(data, off + 3))

\* b'GYU\x1a'
GYU_MAGIC == << 71, 89, 85, 26 >>

\* img.getpixel((x, y)): pattern 0 is one flat colour, pattern 1 gives every
\* channel of every pixel its own value, pattern 2 alternates two colours
GetPixel(img, x, y) ==
    LET i == (y * img.width) + x
    IN  CASE img.pat = 0 -> << 0, 0, 0, 255 >>
          [] img.pat = 1 -> << 1 + (3 * i), 2 + (3 * i), 3 + (3 * i), 10 + i >>
          [] OTHER       -> << i % 2, i % 2, i % 2, 255 * (i % 2) >>

\* raw_data of the 24-bit branch (GYU_Encode.py:286-301): rows bottom-up,
\* each pixel as b, g, r, each row padded with zeros to row_stride
RawData24(img) ==
    LET row_stride == Stride4(img.width * 3)
    IN  [k \in 1 .. row_stride * img.height |->
            LET y   == img.height - 1 - ((k - 1) \div row_stride)
                col == (k - 1) % row_stride
            IN  IF col < img.width * 3
                THEN GetPixel(img, col \div 3, y)[3 - (col % 3)]
                ELSE 0]

\* raw_data of the 8-bit branch (GYU_Encode.py:250-259): palette indices
RawData8(img) ==
    LET row_stride == Stride4(img.width)
    IN  [k \in 1 .. row_stride * img.height |->
            LET y   == img.height - 1 - ((k - 1) \div row_stride)
                col == (k - 1) % row_stride
            IN  IF col < img.width THEN GetPixel(img, col, y)[1] ELSE 0]

\* alpha_raw (GYU_Encode.py:283-306), or None without an alpha channel
AlphaRaw(img) ==
    IF ~img.has_alpha THEN None
    ELSE LET alpha_stride == Stride4(img.width)
         IN  [k \in 1 .. alpha_stride * img.height |->
                 LET y   == img.height - 1 - ((k - 1) \div alpha_stride)
                     col == (k - 1) % alpha_stride
                 IN  IF col < img.width THEN GetPixel(img, col, y)[4] ELSE 0]

\* palette_data (GYU_Encode.py:239-247): 256 entries b, g, r, 0 of a grey
\* ramp palette; empty for 24-bit images
PaletteData(img) ==
    IF img.bpp = 8
    THEN [k \in 1 .. 1024 |-> IF (k - 1) % 4 = 3 THEN 0 ELSE (k - 1) \div 4]
    ELSE <<>>

\* GYU_Encode.py:316-362: compress, scramble, header, file contents
EncodeGyu(img, raw_data, alpha_raw, palette_data, key) ==
    The({ The({ The({ The({
        LET flags  == IF alpha_data # <<>> THEN 3 ELSE 0
            type_  == 0
            header == GYU_MAGIC \o PackU16(flags) \o PackU16(type_)
                        \o PackWord(key) \o PackU32(img.bpp)
                        \o PackU32(img.width) \o PackU32(img.height)
                        \o PackU32(Len(compressed))
                        \o PackU32(Len(alpha_data))
                        \o PackU32(Len(palette_data) \div 4)
        IN  header \o palette_data \o compressed \o alpha_data :
        alpha_data \in {IF alpha_c # <<>> THEN scramble(alpha_c, key)
                        ELSE <<>>} }) :
        alpha_c    \in {IF alpha_raw # None /\ alpha_raw # <<>>
                        THEN compress_lzss(alpha_raw) ELSE <<>>} }) :
        compressed \in {scramble(c0, key)} }) :
        c0         \in {compress_lzss(raw_data)} })

\* a choice of codec that looks at the type field before the sizes
DecompressRgb_TypeFirst(compressed, type_, data_size, expected_size) ==
    IF type_ = 2048
    THEN The({ decompress_lzss2(tail, expected_size) :
               tail \in {Slice(compressed, 4, Len(compressed))} })
    ELSE IF data_size = expected_size THEN compressed
    ELSE decompress_lzss(compressed, expected_size)

\* "Decompress RGB", GYU_Decode.py:317-327: rgb_data (TYPE_GYU = 0x0800)
DecompressRgb(compressed, type_, data_size, expected_size) ==
    IF data_size = expected_size THEN compressed
    ELSE IF type_ = 2048
    THEN The({ decompress_lzss2(tail, expected_size) :
               tail \in {Slice(compressed, 4, Len(compressed))} })
    ELSE decompress_lzss(compressed, expected_size)

\* decode_gyu on the bytes of a file: [ok, rgb, alpha]
DecodeGyu(data) ==
    IF Slice(data, 0, 4) # GYU_MAGIC
    THEN [ok |-> FALSE, rgb |-> None, alpha |-> None]
    ELSE
    LET type_      == UnpackU16(data, 6)
        key        == UnpackLE(data, 8)
        bpp        == UnpackU32(data, 12)
        width      == UnpackU32(data, 16)
        height     == UnpackU32(data, 20)
        data_size  == UnpackU32(data, 24)
        alpha_size == UnpackU32(data, 28)
        pal_colors == UnpackU32(data, 32)
        compressed_start == 36 + (pal_colors * 4)
        compressed0 == Slice(data, compressed_start,
                             compressed_start + data_size)
        alpha_compressed ==
            IF alpha_size > 0
            THEN Slice(data, compressed_start + data_size,
                       compressed_start + data_size + alpha_size)
            ELSE None
        bytes_per_pixel == IF bpp >= 8 THEN bpp \div 8 ELSE 1
        row_stride    == Stride4(width * bytes_per_pixel)
        expected_size == row_stride * height
        alpha_expected == Stride4(width) * height
    IN  The({ The({ The({ The({
            [ok |-> TRUE, rgb |-> rgb_data, alpha |-> alpha_data] :
            alpha_data \in {
                IF ac # None /\ ac # <<>>
                THEN IF alpha_size = alpha_expected THEN ac
                     ELSE decompress_lzss(ac, alpha_expected)
                ELSE None} }) :
            rgb_data \in {
                DecompressRgb(compressed, type_, data_size, expected_size)} }) :
            compressed \in {
                IF key # ZeroWord
                THEN The({ unscramble(c0, key, Len(c0)) :
                           c0 \in {compressed0} })
                ELSE compressed0} }) :
            ac \in {alpha_compressed} })

MaxGyWidth  == 2
MaxGyHeight == 2

\* 0, 1, and two keys of generate_key()'s range: 0x10000000, 0x20100806
GyKeySet == { <<0, 0>>, <<0, 1>>, <<4096, 0>>, <<8208, 2054>> }

\* 24-bit images with or without alpha, 8-bit paletted images without
GyImageSet ==
    { [bpp |-> f[1], width |-> w, height |-> h, pat |-> q, has_alpha |-> f[2]] :
          f \in { <<24, FALSE>>, <<24, TRUE>>, <<8, FALSE>> },
          w \in 1 .. MaxGyWidth, h \in 1 .. MaxGyHeight, q \in 0 .. 2 }

GyInit ==
    /\ MTIdle /\ ShIdle /\ LzIdle /\ L2Idle /\ RlIdle /\ TsvIdle /\ ToolIdle
    /\ gyImg \in GyImageSet
    /\ gyKey \in GyKeySet
    /\ gyRaw = (IF gyImg.bpp = 8 THEN RawData8(gyImg) ELSE RawData24(gyImg))
    /\ gyAlphaRaw = AlphaRaw(gyImg)
    /\ gyFile = None /\ gyRgb = None /\ gyAlphaOut = None
    /\ gyPc = "image"

\* png_to_gyu writes the file
GyEncode ==
    /\ gyPc = "image"
    /\ gyFile' = EncodeGyu(gyImg, gyRaw, gyAlphaRaw, PaletteData(gyImg), gyKey)
    /\ gyPc' = "encoded"
    /\ UNCHANGED <<gyImg, gyKey, gyRaw, gyAlphaRaw, gyRgb, gyAlphaOut,
                   exceptGy>>

\* decode_gyu reads the file back
GyDecode ==
    /\ gyPc = "encoded"
    /\ \E r \in {DecodeGyu(gyFile)} :
          /\ gyRgb' = r.rgb
          /\ gyAlphaOut' = r.alpha
          /\ gyPc' = IF r.ok THEN "decoded" ELSE "error"
    /\ UNCHANGED <<gyImg, gyKey, gyRaw, gyAlphaRaw, gyFile, exceptGy>>

GyStep == GyEncode \/ GyDecode

SpecGyu == GyInit /\ [][GyStep]_vars

\* C4: for every raster, alpha plane and key, the RGB plane and the alpha
\* plane decode_gyu recovers from the file the encoder wrote equal the
\* raster and the alpha plane that were encoded.
C4_GyuRoundTrip ==
    gyPc = "decoded" => gyRgb = gyRaw /\ gyAlphaOut = gyAlphaRaw

-----------------------------------------------------------------------------
(* fix_corrupted_tsv, RLD_Decryptor.py:574-699.  Text is a sequence of     *)
(* one-character strings.                                                  *)

TAB == "\t"
LF  == "\n"
CR  == "\r"
BSL == "\\"

\* the characters str.strip() removes, among those used here
Whitespace == { " ", TAB, LF, CR }

\* `for line in f` on a file opened in text mode with the default newline
\* handling: "\n", "\r\n" and "\r" each end a line and are handed over as
\* "\n"; the last line may come without one.  A line ends at every "\n"
\* and at every "\r" that no "\n" follows.
ReadLines(text) ==
    LET n       == Len(text)
        Ends    == { i \in 1 .. n :
                       \/ text[i] = LF
                       \/ text[i] = CR /\ ~(i < n /\ text[i + 1] = LF) }
        Before(e) == { f \in Ends : f < e }
        Start(e) == IF Before(e) = {} THEN 1
                    ELSE 1 + CHOOSE f \in Before(e) :
                                 \A g \in Before(e) : g <= f
        Nth(k)  == CHOOSE e \in Ends : Cardinality(Before(e)) = k - 1
        Body(e) == IF text[e] = LF /\ e - 1 >= Start(e) /\ text[e - 1] = CR
                   THEN SubSeq(text, Start(e), e - 2)
                   ELSE SubSeq(text, Start(e), e - 1)
        full    == [k \in 1 .. Cardinality(Ends) |->
                       Append(Body(Nth(k)), LF)]
    IN  IF Start(n + 1) <= n
        THEN Append(full, SubSeq(text, Start(n + 1), n))
        ELSE full

RECURSIVE SplitFrom(_, _, _, _, _)
\* s.split(sep)
SplitFrom(str, sep, i, cur, acc) ==
    IF i > Len(str) THEN Append(acc, cur)
    ELSE IF str[i] = sep
    THEN SplitFrom(str, sep, i + 1, <<>>, Append(acc, cur))
    ELSE SplitFrom(str, sep, i + 1, Append(cur, str[i]), acc)

Split(str, sep) == SplitFrom(str, sep, 1, <<>>, <<>>)

RECURSIVE Join(_, _)
\* sep.join(parts)
Join(parts, sep) ==
    IF parts = <<>> THEN <<>>
    ELSE IF Len(parts) = 1 THEN parts[1]
    ELSE parts[1] \o <<sep>> \o Join(Tail(parts), sep)

RECURSIVE RStripCRLF(_)
\* s.rstrip('\r\n')
RStripCRLF(str) ==
    IF str # <<>> /\ str[Len(str)] \in {CR, LF}
    THEN RStripCRLF(SubSeq(str, 1, Len(str) - 1))
    ELSE str

RECURSIVE Strip(_)
\* s.strip()
Strip(str) ==
    IF str # <<>> /\ str[1] \in Whitespace THEN Strip(Tail(str))
    ELSE IF str # <<>> /\ str[Len(str)] \in Whitespace
    THEN Strip(SubSeq(str, 1, Len(str) - 1))
    ELSE str

RECURSIVE ReplaceChar(_, _, _)
\* s.replace(c, to) for a one-character c
ReplaceChar(str, c, to) ==
    IF str = <<>> THEN <<>>
    ELSE (IF str[1] = c THEN to ELSE <<str[1]>>)
             \o ReplaceChar(Tail(str), c, to)

RECURSIVE ReplacePair(_, _, _, _)
\* s.replace(c1 + c2, to) for a two-character pattern
ReplacePair(str, c1, c2, to) ==
    IF Len(str) < 2 THEN str
    ELSE IF str[1] = c1 /\ str[2] = c2
    THEN to \o ReplacePair(SubSeq(str, 3, Len(str)), c1, c2, to)
    ELSE <<str[1]>> \o ReplacePair(Tail(str), c1, c2, to)

\* parts[3].replace('\\n', '\n').replace('\\t', '\t')
Unescape(str) ==
    ReplacePair(ReplacePair(str, BSL, "n", <<LF>>), BSL, "t", <<TAB>>)

\* pristine_original.replace('\n', '\\n').replace('\t', '\\t')
Escape(str) ==
    ReplaceChar(ReplaceChar(str, LF, <<BSL, "n">>), TAB, <<BSL, "t">>)

DigitValue == [c \in {"0", "1"} |-> IF c = "0" THEN 0 ELSE 1]

RECURSIVE DigitsValue(_, _)
DigitsValue(str, acc) ==
    IF str = <<>> THEN acc
    ELSE DigitsValue(Tail(str), (10 * acc) + DigitValue[str[1]])

\* int(s), for text made of the digits 0 and 1, blanks and other
\* characters: [ok, val], ok = FALSE standing for ValueError
ParseInt(str) ==
    LET t == Strip(str)
    IN  IF t # <<>> /\ \A i \in 1 .. Len(t) : t[i] \in DOMAIN DigitValue
        THEN [ok |-> TRUE, val |-> DigitsValue(t, 0)]
        ELSE [ok |-> FALSE, val |-> 0]

\* while len(parts) < 5: parts.append('')
PadTo5(parts) ==
    parts \o [i \in 1 .. (IF Len(parts) < 5 THEN 5 - Len(parts) ELSE 0) |-> <<>>]

\* the body of the loop over the lines of the working TSV
\* (RLD_Decryptor.py:640-683): the line appended to `lines`
FixLine(line, pristine) ==
    IF \/ (line # <<>> /\ line[1] = "#")
       \/ ~(\E i \in 1 .. Len(line) : line[i] = TAB)
       \/ Strip(line) = <<>>
    THEN line
    ELSE
    LET parts == Split(RStripCRLF(line), TAB)
    IN  IF Len(parts) < 4 THEN line
        ELSE IF ~ParseInt(parts[2]).ok THEN line
        ELSE
        LET key == << parts[1], ParseInt(parts[2]).val, parts[3] >>
        IN  IF key \in DOMAIN pristine /\ Unescape(parts[4]) # pristine[key]
            THEN Join(PadTo5([parts EXCEPT ![4] = Escape(pristine[key])]),
                      TAB) \o <<LF>>
            ELSE line

RECURSIVE Concat(_)
\* f.writelines(lines) on a file opened with newline='': the characters of
\* the lines, one after the other, written as they are
Concat(ls) == IF ls = <<>> THEN <<>> ELSE ls[1] \o Concat(Tail(ls))

MaxTsvRows == 2

\* the TYPE column of a message text row
TEXT == << "T", "E", "X", "T" >>

\* rows of a working TSV, without their line ending: an intact row, rows
\* with a corrupted ORIGINAL (5, 4 and 6 columns, an index written "00", an
\* escaped line feed), a row of another index, a row whose index is no
\* number, a 3-column row, a comment, a blank row with a tab, rows without
\* a tab
TsvRowSet ==
    { Join(<< <<"s">>, <<"0">>, TEXT, <<"a", "b", "c">>, <<"y">> >>, TAB),
      Join(<< <<"s">>, <<"0">>, TEXT, <<"z">>, <<"y">> >>, TAB),
      Join(<< <<"s">>, <<"0">>, TEXT, <<"z">> >>, TAB),
      Join(<< <<"s">>, <<"0", "0">>, TEXT, <<"z">>, <<"y">>, <<"w">> >>, TAB),
      Join(<< <<"s">>, <<"0">>, TEXT, <<"a", "b", "c", BSL, "n", "d">>,
              <<"y">> >>, TAB),
      Join(<< <<"s">>, <<"1">>, TEXT, <<"z">>, <<"y">> >>, TAB),
      Join(<< <<"s">>, <<"x">>, TEXT, <<"z">>, <<"y">> >>, TAB),
      Join(<< <<"s">>, <<"0">>, TEXT >>, TAB),
      << "#", " ", "c", TAB, "c" >>,
      << " ", TAB, " " >>,
      << "a", "b" >>,
      << >> }

\* line endings found in a working TSV; the last row may have none
TsvEndSet == { <<LF>>, <<CR, LF>> }

RECURSIVE TsvFilesOf(_)
\* the files of exactly n rows
TsvFilesOf(n) ==
    IF n = 0 THEN { <<>> }
    ELSE { head \o row \o end :
               head \in TsvFilesOf(n - 1), row \in TsvRowSet,
               end \in TsvEndSet }

TsvFileSet ==
    UNION { TsvFilesOf(n) : n \in 0 .. MaxTsvRows }
    \cup { head \o row : head \in TsvFilesOf(MaxTsvRows - 1),
                         row \in TsvRowSet \ { <<>> } }

\* the key of the one entry extracted from the RLD folder
TsvKey == << <<"s">>, 0, TEXT >>

\* pristine tables: no entry, or one entry whose text is plain, or holds a
\* line feed, a tab or a carriage return
PristineSet ==
    { <<>> } \cup
    { [k \in {TsvKey} |-> text] :
          text \in { << "a", "b", "c" >>,
                     << "a", "b", "c", LF, "d" >>,
                     << "a", "b", "c", TAB, "d" >>,
                     << "a", "b", "c", CR, "d" >> } }

TsvInit ==
    /\ MTIdle /\ ShIdle /\ LzIdle /\ L2Idle /\ RlIdle /\ GyIdle /\ ToolIdle
    /\ tsvFile \in TsvFileSet
    /\ tsvPristine \in PristineSet
    /\ tsvPos = 0
    /\ tsvLines = <<>>
    /\ tsvOut = None
    /\ tsvPc = "loop"

\* one pass of `for line in f`
TsvLine ==
    /\ tsvPc = "loop"
    /\ tsvPos < Len(ReadLines(tsvFile))
    /\ tsvLines' = Append(tsvLines,
                          FixLine(ReadLines(tsvFile)[tsvPos + 1], tsvPristine))
    /\ tsvPos' = tsvPos + 1
    /\ UNCHANGED <<tsvFile, tsvPristine, tsvOut, tsvPc, exceptTsv>>

\* step 5: f.writelines(lines)
TsvWrite ==
    /\ tsvPc = "loop"
    /\ tsvPos = Len(ReadLines(tsvFile))
    /\ tsvOut' = Concat(tsvLines)
    /\ tsvPc' = "written"
    /\ UNCHANGED <<tsvFile, tsvPristine, tsvPos, tsvLines, exceptTsv>>

TsvStep == TsvLine \/ TsvWrite

SpecTsv == TsvInit /\ [][TsvStep]_vars

\* the FILE, INDEX and TYPE columns of a line (fewer when it has fewer)
KeyColumns(line) ==
    LET parts == Split(RStripCRLF(line), TAB)
    IN  SubSeq(parts, 1, Min(3, Len(parts)))

\* C10: the repair never inserts or deletes rows: the written TSV has
\* exactly as many lines as the working TSV, and its k-th line carries the
\* same FILE, INDEX and TYPE columns as the k-th line of the working TSV,
\* whatever the pristine table extracted from the RLD folder holds.
C10_RepairKeepsRows ==
    tsvPc = "written" =>
        /\ Len(ReadLines(tsvOut)) = Len(ReadLines(tsvFile))
        /\ \A k \in 1 .. Min(Len(ReadLines(tsvOut)), Len(ReadLines(tsvFile))) :
               KeyColumns(ReadLines(tsvOut)[k])
                   = KeyColumns(ReadLines(tsvFile)[k])

RECURSIVE RawLinesFrom(_, _, _, _)
\* the lines of a file with the line endings they have on disk
RawLinesFrom(text, i, cur, acc) ==
    IF i > Len(text)
    THEN IF cur # <<>> THEN Append(acc, cur) ELSE acc
    ELSE IF text[i] = LF
    THEN RawLinesFrom(text, i + 1, <<>>, Append(acc, Append(cur, LF)))
    ELSE IF text[i] = CR
    THEN IF i < Len(text) /\ text[i + 1] = LF
         THEN RawLinesFrom(text, i + 2, <<>>, Append(acc, cur \o <<CR, LF>>))
         ELSE RawLinesFrom(text, i + 1, <<>>, Append(acc, Append(cur, CR)))
    ELSE RawLinesFrom(text, i + 1, Append(cur, text[i]), acc)

RawLines(text) == RawLinesFrom(text, 1, <<>>, <<>>)

\* the line terminator of a line: its trailing carriage returns and line feeds
Terminator(line) == SubSeq(line, Len(RStripCRLF(line)) + 1, Len(line))

\* a comment line, a line without a tab, or a blank line
IsCommentOrBlank(line) ==
    \/ (line # <<>> /\ line[1] = "#")
    \/ ~(\E i \in 1 .. Len(line) : line[i] = TAB)
    \/ Strip(line) = <<>>

\* the TRANSLATION column and what follows it (the columns from the fifth on)
TranslationOf(line) ==
    LET parts == Split(RStripCRLF(line), TAB)
    IN  SubSeq(parts, 5, Len(parts))

\* C11: the repair writes every comment line and blank line, and the
\* TRANSLATION column and the line terminator of every data row, exactly as
\* they stand in the working TSV, also for rows whose ORIGINAL it
\* overwrites, rows ending in CRLF and a last row without a newline.
C11_RepairFrame ==
    tsvPc = "written" =>
        /\ Len(tsvLines) = Len(RawLines(tsvFile))
        /\ \A k \in 1 .. Min(Len(tsvLines), Len(RawLines(tsvFile))) :
               IF IsCommentOrBlank(RawLines(tsvFile)[k])
               THEN tsvLines[k] = RawLines(tsvFile)[k]
               ELSE /\ TranslationOf(tsvLines[k])
                          = TranslationOf(RawLines(tsvFile)[k])
                    /\ Terminator(tsvLines[k])
                          = Terminator(RawLines(tsvFile)[k])

-----------------------------------------------------------------------------
(* Batch runs: the loops over the files in GYU_Decode.py:528-545,          *)
(* GYU_Encode.py:398-429 and RLD_Decryptor.py:792-805.  A file is "ok"     *)
(* when processing it runs to the end, "raise" when processing it raises   *)
(* an exception (an unreadable file, a directory that matches the          *)
(* pattern, a bad magic in gyu_to_png, ...).                               *)

MaxBatch == 3

BaTools == { "gyu_decode", "gyu_encode", "rld_extract" }

\* whether the loop body of the tool sits in try: ... except Exception
\* (GYU_Decode.py:529/542, GYU_Encode.py:399/426; RLD_Decryptor.py:792-805
\* has none)
Catches(tool) == tool \in { "gyu_decode", "gyu_encode" }

BaInit ==
    /\ CodecIdle /\ RuIdle /\ PrIdle /\ ExIdle /\ LkIdle /\ DzIdle
    /\ baTool \in BaTools
    /\ baFiles \in SeqsUpTo({ "ok", "raise" }, MaxBatch)
    /\ baPos = 0
    /\ baProcessed = {}
    /\ baReported = {}
    /\ baPc = "loop"

\* one pass of the loop on a file that is processed to the end
BaFileDone ==
    /\ baPc = "loop"
    /\ baPos < Len(baFiles)
    /\ baFiles[baPos + 1] = "ok"
    /\ baProcessed' = baProcessed \cup { baPos + 1 }
    /\ baPos' = baPos + 1
    /\ UNCHANGED <<baTool, baFiles, baReported, baPc, exceptBa>>

\* one pass on a file that raises, in a loop that catches: print
\* "Error processing ..." and go on with the next file
BaFileCaught ==
    /\ baPc = "loop"
    /\ baPos < Len(baFiles)
    /\ baFiles[baPos + 1] = "raise"
    /\ Catches(baTool)
    /\ baReported' = baReported \cup { baPos + 1 }
    /\ baPos' = baPos + 1
    /\ UNCHANGED <<baTool, baFiles, baProcessed, baPc, exceptBa>>

\* one pass on a file that raises, in a loop that does not catch: the
\* exception leaves main(), the interpreter prints the traceback and exits
BaFileUncaught ==
    /\ baPc = "loop"
    /\ baPos < Len(baFiles)
    /\ baFiles[baPos + 1] = "raise"
    /\ ~Catches(baTool)
    /\ baReported' = baReported \cup { baPos + 1 }
    /\ baPos' = baPos + 1
    /\ baPc' = "aborted"
    /\ UNCHANGED <<baTool, baFiles, baProcessed, exceptBa>>

\* the loop has taken every file
BaEnd ==
    /\ baPc = "loop"
    /\ baPos = Len(baFiles)
    /\ baPc' = "done"
    /\ UNCHANGED <<baTool, baFiles, baPos, baProcessed, baReported, exceptBa>>

BaStep == BaFileDone \/ BaFileCaught \/ BaFileUncaught \/ BaEnd

SpecBatch == BaInit /\ [][BaStep]_vars

\* C12: in a batch run of any of the three tools, a file whose processing
\* raises is reported, and every file that can be processed is processed,
\* also those that come after a file that raised.
C12_BatchIsolated ==
    baPc \in { "done", "aborted" } =>
        \A i \in 1 .. Len(baFiles) :
            /\ baFiles[i] = "raise" => i \in baReported
            /\ baFiles[i] = "ok" => i \in baProcessed

-----------------------------------------------------------------------------
(* The character table over a run: main() in extraction mode               *)
(* (RLD_Decryptor.py:773-805) and fix_corrupted_tsv (585-612).  A file is  *)
(* <<name, isRld>>: isRld says whether its bytes pass the test             *)
(* len(data) >= 16 and data[1:4] == b'DLR'.                                *)

\* the names of the files of a folder, in the order sorted() gives them
RuNameOrder == << "a.rld", "b.rld", "defChara.rld", "defchara.rld" >>

\* name.lower()
Lower(name) == IF name = "defChara.rld" THEN "defchara.rld" ELSE name

RECURSIVE RuListsFrom(_)
\* sorted(dir.glob('*.rld')) for the folders made of the names from the
\* i-th on
RuListsFrom(i) ==
    IF i > Len(RuNameOrder) THEN { <<>> }
    ELSE LET rest == RuListsFrom(i + 1)
         IN  rest \cup { << <<RuNameOrder[i], f>> >> \o r :
                            r \in rest, f \in BOOLEAN }

\* what defChara.rld can define: nothing, one name, two names
RuDefTables ==
    { <<>>, [k \in {3} |-> "A"], [k \in {3, 4} |-> IF k = 3 THEN "A" ELSE "B"] }

\* CHAR_TABLE after the assignments CHAR_TABLE[char_id] = char_name of
\* parse_defchara for the definitions in found
ParseDefchara(table, found) ==
    [k \in DOMAIN table \cup DOMAIN found |->
        IF k \in DOMAIN found THEN found[k] ELSE table[k]]

\* rld_file.name.lower() == 'defchara.rld' (main), and
\* filename.lower() == 'defchara' on the stem (fix_corrupted_tsv)
IsDefchara(name) == Lower(name) = "defchara.rld"

\* the statements of a run in the order they stand in main() and in
\* fix_corrupted_tsv; the alternative puts the file loop first
RuOrder_ScriptsFirst == << "scripts", "defchara", "done" >>

RuOrder == << "defchara", "scripts", "done" >>

\* the statement after pc
RuAfter(pc) ==
    RuOrder[(CHOOSE i \in 1 .. Len(RuOrder) : RuOrder[i] = pc) + 1]

\* the file that the path dir / 'defChara.rld' names
RuDefFile ==
    LET exact == { i \in 1 .. Len(ruFiles) : ruFiles[i][1] = "defChara.rld" }
        any   == { i \in 1 .. Len(ruFiles) : IsDefchara(ruFiles[i][1]) }
    IN  ruFiles[CHOOSE i \in (IF exact # {} THEN exact ELSE any) : TRUE]

RuInit ==
    /\ CodecIdle /\ BaIdle /\ PrIdle /\ ExIdle /\ LkIdle /\ DzIdle
    /\ ruMode \in { "extract", "fix" }
    /\ ruFiles \in RuListsFrom(1)
    /\ ruDefExists \in
          { e \in BOOLEAN :
              \* the exact name is found on every file system, another
              \* spelling on a case-insensitive one only
              /\ (\E i \in 1 .. Len(ruFiles) : ruFiles[i][1] = "defChara.rld")
                     => e
              /\ e => \E i \in 1 .. Len(ruFiles) : IsDefchara(ruFiles[i][1]) }
    /\ ruDefTable \in RuDefTables
    /\ ruPos = 0
    /\ ruTable = <<>>
    /\ ruSeen = <<>>
    /\ ruParsedAt = <<>>
    /\ ruPc = RuOrder[1]

\* "Process defChara.rld FIRST" (main 773-785, fix_corrupted_tsv 585-592):
\* main goes through process_file, which returns before parse_defchara
\* when the bytes are no RLD; fix_corrupted_tsv calls parse_defchara on
\* whatever it decrypted, and parse_rld then returns no command
RuDefchara ==
    /\ ruPc = "defchara"
    /\ IF ruDefExists /\ (ruMode = "fix" \/ RuDefFile[2])
       THEN /\ ruTable' = ParseDefchara(ruTable,
                              IF RuDefFile[2] THEN ruDefTable ELSE <<>>)
            /\ ruParsedAt' = Append(ruParsedAt, Len(ruSeen))
       ELSE UNCHANGED <<ruTable, ruParsedAt>>
    /\ ruPc' = RuAfter(ruPc)
    /\ UNCHANGED <<ruMode, ruFiles, ruDefExists, ruDefTable, ruPos, ruSeen,
                   exceptRu>>

\* one pass of the file loop that goes on to the next file: the file is
\* defChara (main 793-794, fix 601-602) or its bytes are no RLD
\* (process_file 544-545, fix 607-608)
RuSkip ==
    /\ ruPc = "scripts"
    /\ ruPos < Len(ruFiles)
    /\ IsDefchara(ruFiles[ruPos + 1][1]) \/ ~ruFiles[ruPos + 1][2]
    /\ ruPos' = ruPos + 1
    /\ UNCHANGED <<ruMode, ruFiles, ruDefExists, ruDefTable, ruTable, ruSeen,
                   ruParsedAt, ruPc, exceptRu>>

\* one pass of the file loop on a script: decrypt, parse_rld,
\* extract_translatable, which reads CHAR_TABLE
RuExtract ==
    /\ ruPc = "scripts"
    /\ ruPos < Len(ruFiles)
    /\ ~IsDefchara(ruFiles[ruPos + 1][1]) /\ ruFiles[ruPos + 1][2]
    /\ ruSeen' = Append(ruSeen, ruTable)
    /\ ruPos' = ruPos + 1
    /\ UNCHANGED <<ruMode, ruFiles, ruDefExists, ruDefTable, ruTable,
                   ruParsedAt, ruPc, exceptRu>>

\* the file loop is over
RuScriptsEnd ==
    /\ ruPc = "scripts"
    /\ ruPos = Len(ruFiles)
    /\ ruPc' = RuAfter(ruPc)
    /\ UNCHANGED <<ruMode, ruFiles, ruDefExists, ruDefTable, ruPos, ruTable,
                   ruSeen, ruParsedAt, exceptRu>>

RuStep == RuDefchara \/ RuSkip \/ RuExtract \/ RuScriptsEnd

SpecRun == RuInit /\ [][RuStep]_vars

\* C13: in an extraction run and in a repair run, parse_defchara is called
\* before the first script is passed to extract_translatable, and the
\* character table every later call of extract_translatable reads is the
\* one the first call read, up to the end of the run.
C13_TableBeforeScripts ==
    /\ \A i \in 1 .. Len(ruParsedAt) : ruParsedAt[i] = 0
    /\ \A i \in 1 .. Len(ruSeen) : ruSeen[i] = ruTable

C13_Witness ==
    /\ ruPc = "done"
    /\ Len(ruParsedAt) = 1
    /\ Len(ruSeen) >= 2
    /\ DOMAIN ruTable = {3, 4}

-----------------------------------------------------------------------------
(* parse_rld and read_cstring, RLD_Decryptor.py:155-218.  A command is the *)
(* record [offset, type, params, strings]; params are 32-bit words,        *)
(* strings are sequences of code points.  The loop state is the record     *)
(* [offset, commands, stop]; stop records a `break`.                       *)

\* bytes.decode('cp932') on bytes below 0x80, each of which is one
\* character with the same code point
Cp932Decode(bytes) == bytes

RECURSIVE CStringEnd(_, _)
\* while end < len(data) and data[end] != 0: end += 1
CStringEnd(data, end) ==
    IF end < Len(data) /\ At(data, end) # 0
    THEN CStringEnd(data, end + 1)
    ELSE end

\* read_cstring(data, offset): <<s, end + 1>>
read_cstring(data, offset) ==
    The({ << Cp932Decode(Slice(data, offset, end)), end + 1 >> :
          end \in {CStringEnd(data, offset)} })

\* if offset + 4 <= len(data): cmd['params'].append(...); offset += 4
\* acc = <<params, offset>>
PrParam(data, acc) ==
    IF acc[2] + 4 <= Len(data)
    THEN << Append(acc[1], UnpackLE(data, acc[2])), acc[2] + 4 >>
    ELSE acc

RECURSIVE PrParams(_, _, _, _)
\* for _ in range(dword_count): <PrParam>          (passes lo .. hi-1)
PrParams(data, acc, lo, hi) ==
    IF hi <= lo THEN acc
    ELSE IF hi = lo + 1 THEN PrParam(data, acc)
    ELSE The({ PrParams(data, mid, (lo + hi) \div 2, hi) :
               mid \in {PrParams(data, acc, lo, (lo + hi) \div 2)} })

\* if offset < len(data): s, offset = read_cstring(data, offset);
\*     cmd['strings'].append(s)
\* acc = <<strings, offset>>
PrString(data, acc) ==
    IF acc[2] < Len(data)
    THEN The({ << Append(acc[1], r[1]), r[2] >> :
               r \in {read_cstring(data, acc[2])} })
    ELSE acc

RECURSIVE PrStrings(_, _, _, _)
\* for _ in range(string_count): <PrString>        (passes lo .. hi-1)
PrStrings(data, acc, lo, hi) ==
    IF hi <= lo THEN acc
    ELSE IF hi = lo + 1 THEN PrString(data, acc)
    ELSE The({ PrStrings(data, mid, (lo + hi) \div 2, hi) :
               mid \in {PrStrings(data, acc, lo, (lo + hi) \div 2)} })

\* header & 0xFFFF, (header >> 16) & 0xFF, (header >> 24) & 0x0F
CmdType(header)     == header[2]
DwordCount(header)  == header[1] % 256
StringCount(header) == (header[1] \div 256) % 16

\* a test that only looks at the command type
PrViolates_TypeOnly(cmd_type, dword_count, string_count) ==
    cmd_type > 4096

\* cmd_type > 0x1000 or dword_count > 50 or string_count > 15
PrViolates(cmd_type, dword_count, string_count) ==
    cmd_type > 4096 \/ dword_count > 50 \/ string_count > 15

\* one pass of `for _ in range(cmd_count)`, RLD_Decryptor.py:181-216
PrPass(st, data) ==
    IF st.offset + 4 > Len(data) THEN [st EXCEPT !.stop = TRUE]
    ELSE The({
        IF PrViolates(CmdType(header), DwordCount(header),
                      StringCount(header))
        THEN [st EXCEPT !.offset = st.offset + 4, !.stop = TRUE]
        ELSE The({ The({ The({
                 [offset |-> ss[2], commands |-> cmds,
                  stop |-> Len(cmds) > 50000] :
                 cmds \in {Append(st.commands,
                                  [offset  |-> st.offset,
                                   type    |-> CmdType(header),
                                   params  |-> ps[1],
                                   strings |-> ss[1]])} }) :
                 ss \in {PrStrings(data, << <<>>, ps[2] >>, 0,
                                   StringCount(header))} }) :
                 ps \in {PrParams(data, << <<>>, st.offset + 4 >>, 0,
                                  DwordCount(header))} }) :
        header \in {UnpackLE(data, st.offset)} })

RECURSIVE PrRange(_, _, _, _)
\* the passes lo .. hi-1 of the loop, none after a break
PrRange(st, data, lo, hi) ==
    IF st.stop \/ hi <= lo THEN st
    ELSE IF hi = lo + 1 THEN PrPass(st, data)
    ELSE The({ PrRange(mid, data, (lo + hi) \div 2, hi) :
               mid \in {PrRange(st, data, lo, (lo + hi) \div 2)} })

RECURSIVE PrBlocks(_, _, _)
\* n times 65536 passes, none after a break
PrBlocks(st, data, n) ==
    IF st.stop \/ n = 0 THEN st
    ELSE The({ PrBlocks(next, data, n - 1) :
               next \in {PrRange(st, data, 0, Half)} })

\* for _ in range(cmd_count), cmd_count a 32-bit word
PrLoop(st, data, cmd_count) ==
    The({ PrRange(blocks, data, 0, cmd_count[2]) :
          blocks \in {PrBlocks(st, data, cmd_count[1])} })

\* b'DLR'
DLR == << 68, 76, 82 >>

\* cmd_offset >= len(data), cmd_offset a 32-bit word
OffsetPastEnd(cmd_offset, n) ==
    cmd_offset[1] > n \div Half
        \/ (cmd_offset[1] = n \div Half /\ cmd_offset[2] >= n % Half)

parse_rld(data) ==
    IF Len(data) < 16 \/ Slice(data, 1, 4) # DLR THEN <<>>
    ELSE IF OffsetPastEnd(UnpackLE(data, 8), Len(data)) THEN <<>>
    ELSE PrLoop([offset   |-> (UnpackLE(data, 8)[1] * Half)
                                  + UnpackLE(data, 8)[2],
                 commands |-> <<>>, stop |-> FALSE],
                data, UnpackLE(data, 12)).commands

(* the files parse_rld is run on                                            *)

MaxPrPieces == 3
PrBigCmds   == 50001

\* the 16 bytes in front of the commands
PrHeader(cmd_offset, cmd_count) ==
    <<0>> \o DLR \o <<0, 0, 0, 0>> \o PackWord(<<0, cmd_offset>>)
        \o PackWord(cmd_count)

\* byte strings the command area is made of: a MESSAGE with one param and
\* two strings, a command of no param and no string, a header of type
\* 0x1001, a header of 51 params, a header whose string byte is 0x1F with
\* 15 empty strings, a command of two params followed by one, a command of
\* one string followed by none, by an unterminated one, two stray bytes
PrPieces ==
    { << 28, 0, 1, 2, 5, 0, 0, 0, 97, 0, 98, 0 >>,
      << 5, 0, 0, 0 >>,
      << 1, 16, 0, 0 >>,
      << 28, 0, 51, 0 >>,
      << 28, 0, 0, 31 >> \o [i \in 1 .. 15 |-> 0],
      << 28, 0, 2, 0, 7, 0, 0, 0 >>,
      << 28, 0, 0, 1 >>,
      << 28, 0, 0, 1, 97 >>,
      << 9, 9 >> }

RECURSIVE PrBodies(_)
\* the command areas of at most n pieces
PrBodies(n) ==
    IF n = 0 THEN { <<>> }
    ELSE LET shorter == PrBodies(n - 1)
         IN  shorter \cup { b \o q : b \in shorter, q \in PrPieces }

\* small files with a command count of 0 to 3 or 0xFFFFFFFF, a file that
\* fails the magic test, a file whose cmd_offset is past its end, and a
\* file of PrBigCmds commands with a command count above that
PrFileSet ==
    { PrHeader(16, c) \o b :
          c \in { <<0, 0>>, <<0, 1>>, <<0, 2>>, <<0, 3>>, <<65535, 65535>> },
          b \in PrBodies(MaxPrPieces) }
    \cup { <<0, 68, 76, 83>> \o [i \in 1 .. 16 |-> 0],
           PrHeader(40, <<0, 1>>) \o << 5, 0, 0, 0 >>,
           PrHeader(16, <<0, 60000>>) \o [i \in 1 .. 4 * PrBigCmds |-> 0] }

PrInit ==
    /\ CodecIdle /\ BaIdle /\ RuIdle /\ ExIdle /\ LkIdle /\ DzIdle
    /\ prData \in PrFileSet
    /\ prCmds = <<>>
    /\ prPc = "call"

\* commands = parse_rld(decrypted)
PrParse ==
    /\ prPc = "call"
    /\ prCmds' = parse_rld(prData)
    /\ prPc' = "returned"
    /\ UNCHANGED <<prData, exceptPr>>

PrStep == PrParse

SpecParse == PrInit /\ [][PrStep]_vars

RECURSIVE SumLens(_)
\* the bytes a list of strings takes in the file, terminators included
SumLens(strings) ==
    IF strings = <<>> THEN 0
    ELSE Len(strings[1]) + 1 + SumLens(Tail(strings))

\* the offset behind a returned command
PrExtent(cmd) ==
    cmd.offset + 4 + (4 * Len(cmd.params)) + SumLens(cmd.strings)

\* the header word a returned command was built from
HeaderOf(cmd) == UnpackLE(prData, cmd.offset)

\* C14: parse_rld stops at the first command header with type > 0x1000,
\* dword_count > 50 or string_count > 15: every returned command has a
\* header within these bounds, and the returned commands are the unbroken
\* chain from cmd_offset on, so none lies behind a header that is not.
C14_StopsAtBadHeader ==
    prPc = "returned" =>
        /\ \A k \in 1 .. Len(prCmds) :
              /\ CmdType(HeaderOf(prCmds[k])) <= 4096
              /\ DwordCount(HeaderOf(prCmds[k])) <= 50
              /\ StringCount(HeaderOf(prCmds[k])) <= 15
              /\ prCmds[k].type = CmdType(HeaderOf(prCmds[k]))
              /\ Len(prCmds[k].params) <= 50
              /\ Len(prCmds[k].strings) <= 15
        /\ prCmds # <<>> => prCmds[1].offset = UnpackLE(prData, 8)[2]
        /\ \A k \in 1 .. Len(prCmds) - 1 :
              prCmds[k + 1].offset = PrExtent(prCmds[k])

C14_Witness ==
    /\ prPc = "returned"
    /\ Len(prCmds) = 1
    /\ UnpackLE(prData, 12) = <<0, 3>>
    /\ PrExtent(prCmds[1]) + 8 <= Len(prData)
    /\ DwordCount(UnpackLE(prData, PrExtent(prCmds[1]))) > 50
    /\ ~PrViolates(CmdType(UnpackLE(prData, PrExtent(prCmds[1]) + 4)),
                   DwordCount(UnpackLE(prData, PrExtent(prCmds[1]) + 4)),
                   StringCount(UnpackLE(prData, PrExtent(prCmds[1]) + 4)))

\* C19: every command parse_rld returns has exactly as many params as the
\* dword_count of its header and as many strings as the string_count of
\* its header.
C19_NoPartialCommands ==
    prPc = "returned" =>
        \A k \in 1 .. Len(prCmds) :
            /\ Len(prCmds[k].params) = DwordCount(HeaderOf(prCmds[k]))
            /\ Len(prCmds[k].strings) = StringCount(HeaderOf(prCmds[k]))

\* C20: parse_rld returns at most min(cmd_count, 50000) commands.
C20_AtMostCap ==
    prPc = "returned" =>
        /\ Len(prCmds) <= 50000
        /\ UnpackLE(prData, 12)[1] = 0 => Len(prCmds) <= UnpackLE(prData, 12)[2]

-----------------------------------------------------------------------------
(* extract_translatable and the text tests it uses,                        *)
(* RLD_Decryptor.py:53-89 and 245-384.  Text is a sequence of code points. *)
(* An entry is a record with the fields of the dict the code builds; the   *)
(* 'file' field, the same in every entry of a call, is left out; None is   *)
(* written None; a type f'CHOICE_{j}_{k}' is type "CHOICE" with j and k.   *)

\* code points
CpTab   == 9
CpStar  == 42
CpComma == 44
CpMinus == 45
CpDot   == 46
CpEq    == 61
CpR     == 82
CpBsl   == 92
CpUnder == 95
CpFwEq  == 65309    \* U+FF1D FULLWIDTH EQUALS SIGN

\* str.strip() removes these (of the characters used here)
WhitespaceCp == { 9, 10, 11, 12, 13, 32, 12288 }

\* \d of a str pattern and str.isdigit(): ASCII and fullwidth digits (of
\* the characters used here)
IsDigit(c) == c \in 48 .. 57 \/ c \in 65296 .. 65305

\* [a-zA-Z]
IsLetter(c) == c \in 65 .. 90 \/ c \in 97 .. 122

RECURSIVE StripCp(_)
\* s.strip()
StripCp(str) ==
    IF str # <<>> /\ str[1] \in WhitespaceCp THEN StripCp(Tail(str))
    ELSE IF str # <<>> /\ str[Len(str)] \in WhitespaceCp
    THEN StripCp(SubSeq(str, 1, Len(str) - 1))
    ELSE str

RECURSIVE LStripCp(_, _)
\* s.lstrip(c)
LStripCp(str, c) ==
    IF str # <<>> /\ str[1] = c THEN LStripCp(Tail(str), c) ELSE str

\* s.startswith(prefix), s.endswith(suffix)
StartsWith(str, prefix) ==
    Len(str) >= Len(prefix) /\ SubSeq(str, 1, Len(prefix)) = prefix
EndsWith(str, suffix) ==
    Len(str) >= Len(suffix)
        /\ SubSeq(str, Len(str) - Len(suffix) + 1, Len(str)) = suffix

\* contains_japanese(text)
contains_japanese(text) ==
    \E i \in 1 .. Len(text) :
        \/ text[i] \in 12352 .. 12447      \* 0x3040-0x309F
        \/ text[i] \in 12448 .. 12543      \* 0x30A0-0x30FF
        \/ text[i] \in 19968 .. 40959      \* 0x4E00-0x9FFF
        \/ text[i] \in 65280 .. 65519      \* 0xFF00-0xFFEF

\* [\d,\-\.\*\s\;\:\&\|\=\<\>\[\]\(\)RQLSrqls]
InSkipClass(c) ==
    \/ IsDigit(c)
    \/ c \in WhitespaceCp
    \/ c \in { 44, 45, 46, 42, 59, 58, 38, 124, 61, 60, 62, 91, 93, 40, 41,
               82, 81, 76, 83, 114, 113, 108, 115 }

\* skip_starts: '-1,', '0,', '1,', '10,', '100,', '101,', '102,', '2000,'
SkipStarts ==
    { << 45, 49, 44 >>, << 48, 44 >>, << 49, 44 >>, << 49, 48, 44 >>,
      << 49, 48, 48, 44 >>, << 49, 48, 49, 44 >>, << 49, 48, 50, 44 >>,
      << 50, 48, 48, 48, 44 >> }

\* is_translatable_text(text), as a truth value
is_translatable_text(text) ==
    IF Len(text) < 2 THEN FALSE
    ELSE IF \A i \in 1 .. Len(text) : InSkipClass(text[i]) THEN FALSE
    ELSE IF \E pat \in SkipStarts :
                StartsWith(text, pat) /\ ~contains_japanese(text)
    THEN FALSE
    ELSE \/ contains_japanese(text)
         \/ \E i \in 1 .. Len(text) - 2 :
                IsLetter(text[i]) /\ IsLetter(text[i + 1])
                    /\ IsLetter(text[i + 2])

RECURSIVE LabelPart(_, _)
\* for i in range(len(parts) - 1, -1, -1): the first stripped part that
\* contains Japanese and is not '*'; None when there is none
LabelPart(parts, i) ==
    IF i = 0 THEN None
    ELSE IF contains_japanese(StripCp(parts[i]))
            /\ StripCp(parts[i]) # << CpStar >>
    THEN StripCp(parts[i])
    ELSE LabelPart(parts, i - 1)

\* extract_label_text(label_string)
extract_label_text(label_string) ==
    IF label_string = <<>> THEN None
    ELSE LabelPart(Split(label_string, CpComma),
                   Len(Split(label_string, CpComma)))

RECURSIVE DigitRun(_, _)
\* the length of the run of digits that starts at position i
DigitRun(str, i) ==
    IF i <= Len(str) /\ IsDigit(str[i]) THEN 1 + DigitRun(str, i + 1) ELSE 0

\* a match that takes the fullwidth sign only
BranchMatch_FullwidthOnly(name) ==
    LET d1 == DigitRun(name, 2)
        e  == 2 + d1
        d2 == DigitRun(name, e + 1)
    IN  IF /\ name # <<>> /\ name[1] = CpR
           /\ d1 >= 1
           /\ e <= Len(name) /\ name[e] = CpFwEq
           /\ d2 >= 1 /\ e + d2 = Len(name)
        THEN [ok |-> TRUE, q |-> SubSeq(name, 2, e - 1),
              n |-> SubSeq(name, e + 1, Len(name))]
        ELSE [ok |-> FALSE, q |-> <<>>, n |-> <<>>]

\* re.match(r'^R(\d+)[＝=](\d+)$', name): [ok, q, n], the groups 1 and 2
\* (name comes out of strip(), so no line feed ends it)
BranchMatch(name) ==
    LET d1 == DigitRun(name, 2)
        e  == 2 + d1
        d2 == DigitRun(name, e + 1)
    IN  IF /\ name # <<>> /\ name[1] = CpR
           /\ d1 >= 1
           /\ e <= Len(name) /\ name[e] \in { CpFwEq, CpEq }
           /\ d2 >= 1 /\ e + d2 = Len(name)
        THEN [ok |-> TRUE, q |-> SubSeq(name, 2, e - 1),
              n |-> SubSeq(name, e + 1, Len(name))]
        ELSE [ok |-> FALSE, q |-> <<>>, n |-> <<>>]

\* f"CHOICE_{question_id}_{choice_num}"
ChoiceId(q, n) ==
    << 67, 72, 79, 73, 67, 69, CpUnder >> \o q \o << CpUnder >> \o n

\* char_id >= 3 and char_id in CHAR_TABLE, char_id a 32-bit word (0 for
\* a command without params)
InTable(char_id, table) ==
    (char_id[1] > 0 \/ char_id[2] >= 3) /\ char_id \in DOMAIN table

\* the character table looked at before the inline name
Speaker_TableFirst(strings, char_id, table) ==
    IF InTable(char_id, table) THEN table[char_id]
    ELSE IF Len(strings) >= 2 /\ strings[1] # <<>>
            /\ strings[1] # << CpStar >>
    THEN strings[1]
    ELSE None

\* entry['speaker'], RLD_Decryptor.py:270-281
Speaker(strings, char_id, table) ==
    IF Len(strings) >= 2 /\ strings[1] # <<>> /\ strings[1] # << CpStar >>
    THEN strings[1]
    ELSE IF InTable(char_id, table) THEN table[char_id]
    ELSE None

\* the MESSAGE branch, lines 251-284: [entries, branch]
ExMessage(cmd, i, branch, table) ==
    IF cmd.strings = <<>> THEN [entries |-> <<>>, branch |-> branch]
    ELSE LET char_id == IF cmd.params # <<>> THEN cmd.params[1]
                        ELSE ZeroWord
             text    == cmd.strings[Len(cmd.strings)]
             entry   == [index |-> i, type |-> "MESSAGE",
                         speaker |-> Speaker(cmd.strings, char_id, table),
                         text |-> text, char_id |-> char_id,
                         branch |-> branch]
         IN  [entries |-> IF text # <<>> /\ is_translatable_text(text)
                          THEN << entry >> ELSE <<>>,
              branch  |-> branch]

\* a BLOCK branch that emits MERGE for a "*" block with no branch open
ExBlock_MergeUnconditional(cmd, i, branch) ==
    IF cmd.strings = <<>> THEN [entries |-> <<>>, branch |-> branch]
    ELSE LET raw_label  == cmd.strings[Len(cmd.strings)]
             parts      == Split(raw_label, CpComma)
             block_name == IF Len(parts) >= 4 THEN parts[4] ELSE <<>>
             bm         == BranchMatch(StripCp(block_name))
             extracted  == extract_label_text(raw_label)
         IN  IF bm.ok
             THEN [entries |-> << [index |-> i, type |-> "BRANCH_START",
                                   branch_id |-> ChoiceId(bm.q, bm.n),
                                   raw |-> raw_label] >>,
                   branch  |-> ChoiceId(bm.q, bm.n)]
             ELSE IF StripCp(block_name) = << CpStar >>
             THEN [entries |-> << [index |-> i, type |-> "MERGE",
                                   raw |-> raw_label] >>,
                   branch  |-> None]
             ELSE IF extracted # None /\ is_translatable_text(extracted)
             THEN [entries |-> << [index |-> i, type |-> "LABEL",
                                   text |-> extracted, raw |-> raw_label] >>,
                   branch  |-> None]
             ELSE [entries |-> <<>>, branch |-> branch]

\* the BLOCK branch, lines 286-334
ExBlock(cmd, i, branch) ==
    IF cmd.strings = <<>> THEN [entries |-> <<>>, branch |-> branch]
    ELSE LET raw_label  == cmd.strings[Len(cmd.strings)]
             parts      == Split(raw_label, CpComma)
             block_name == IF Len(parts) >= 4 THEN parts[4] ELSE <<>>
             bm         == BranchMatch(StripCp(block_name))
             extracted  == extract_label_text(raw_label)
         IN  IF bm.ok
             THEN [entries |-> << [index |-> i, type |-> "BRANCH_START",
                                   branch_id |-> ChoiceId(bm.q, bm.n),
                                   raw |-> raw_label] >>,
                   branch  |-> ChoiceId(bm.q, bm.n)]
             ELSE IF StripCp(block_name) = << CpStar >> /\ branch # None
             THEN [entries |-> << [index |-> i, type |-> "MERGE",
                                   raw |-> raw_label] >>,
                   branch  |-> None]
             ELSE IF extracted # None /\ is_translatable_text(extracted)
             THEN [entries |-> << [index |-> i, type |-> "LABEL",
                                   text |-> extracted, raw |-> raw_label] >>,
                   branch  |-> None]
             ELSE [entries |-> <<>>, branch |-> branch]

\* a JUMP branch that closes the branch
ExJump_ClosesBranch(cmd, i, branch) ==
    [entries |-> IF cmd.strings # <<>>
                 THEN << [index |-> i, type |-> "JUMP",
                          target |-> cmd.strings[1], branch |-> branch] >>
                 ELSE <<>>,
     branch  |-> None]

\* the JUMP branch, lines 336-344
ExJump(cmd, i, branch) ==
    [entries |-> IF cmd.strings # <<>>
                 THEN << [index |-> i, type |-> "JUMP",
                          target |-> cmd.strings[1], branch |-> branch] >>
                 ELSE <<>>,
     branch  |-> branch]

\* part.lstrip('-').replace('.', '').isdigit()
IsNumberLike(part) ==
    LET t == SelectSeq(LStripCp(part, CpMinus), LAMBDA c : c # CpDot)
    IN  t # <<>> /\ \A k \in 1 .. Len(t) : IsDigit(t[k])

\* whether a stripped part of an option is kept as a choice text,
\* lines 355-363
IsChoiceText(part) ==
    /\ part # <<>> /\ part # << CpStar >>
    /\ ~IsNumberLike(part)
    /\ ~EndsWith(part, << CpDot, 103, 121, 117 >>)         \* '.gyu'
    /\ ~StartsWith(part, << 114, 101, 115, CpBsl >>)       \* 'res\\'
    /\ contains_japanese(part) /\ is_translatable_text(part)

\* choice_texts of one option, lines 351-363
ChoiceTexts(opt_raw) ==
    LET parts == Split(opt_raw, CpTab)
    IN  SelectSeq([k \in 1 .. Len(parts) |-> StripCp(parts[k])],
                  IsChoiceText)

RECURSIVE ExOptions(_, _, _)
\* for j, opt_raw in enumerate(cmd['strings']), from the j-th option
\* (0-based) on: the entries, lines 347-371
ExOptions(strings, j, i) ==
    IF j >= Len(strings) THEN <<>>
    ELSE (IF strings[j + 1] = <<>> \/ strings[j + 1] = << CpStar >>
          THEN <<>>
          ELSE LET texts == ChoiceTexts(strings[j + 1])
               IN  [k \in 1 .. Len(texts) |->
                       [index |-> i, type |-> "CHOICE", j |-> j, k |-> k,
                        text |-> texts[k]]])
         \o ExOptions(strings, j + 1, i)

\* a CHANGESCENARIO branch that leaves the branch open
ExGoto_KeepsBranch(cmd, i, branch) ==
    [entries |-> IF cmd.strings # <<>>
                 THEN << [index |-> i, type |-> "GOTO_FILE",
                          target |-> cmd.strings[1], branch |-> branch] >>
                 ELSE <<>>,
     branch  |-> branch]

\* the CHANGESCENARIO branch, lines 373-382
ExGoto(cmd, i, branch) ==
    [entries |-> IF cmd.strings # <<>>
                 THEN << [index |-> i, type |-> "GOTO_FILE",
                          target |-> cmd.strings[1], branch |-> branch] >>
                 ELSE <<>>,
     branch  |-> None]

\* a loop pass in which a QUESTION command closes the branch
ExCommand_QuestionCloses(cmd, i, branch, table) ==
    CASE cmd.type = 28 -> ExMessage(cmd, i, branch, table)
      [] cmd.type = 5  -> ExBlock(cmd, i, branch)
      [] cmd.type = 20 -> ExJump(cmd, i, branch)
      [] cmd.type = 21 -> [entries |-> ExOptions(cmd.strings, 0, i),
                           branch  |-> None]
      [] cmd.type = 17 -> ExGoto(cmd, i, branch)
      [] OTHER         -> [entries |-> <<>>, branch |-> branch]

\* one pass of `for i, cmd in enumerate(commands)`: the entries it
\* appends and current_branch after it
ExCommand(cmd, i, branch, table) ==
    CASE cmd.type = 28 -> ExMessage(cmd, i, branch, table)
      [] cmd.type = 5  -> ExBlock(cmd, i, branch)
      [] cmd.type = 20 -> ExJump(cmd, i, branch)
      [] cmd.type = 21 -> [entries |-> ExOptions(cmd.strings, 0, i),
                           branch  |-> branch]
      [] cmd.type = 17 -> ExGoto(cmd, i, branch)
      [] OTHER         -> [entries |-> <<>>, branch |-> branch]

(* extract_translatable run on a command list                              *)

MaxExCmds == 2

\* the texts "あ", "い", "あい", "いあ", "いい" (U+3042, U+3044)
TextA  == << 12354 >>
TextI  == << 12356 >>
TextAI == << 12354, 12356 >>
TextIA == << 12356, 12354 >>
TextII == << 12356, 12356 >>

\* a command as extract_translatable reads it
Cmd(type, params, strings) ==
    [type |-> type, params |-> params, strings |-> strings]

\* "1,0,1," in front of a block name
BlockHead == << 49, CpComma, 48, CpComma, 49, CpComma >>

\* MESSAGE commands: an inline name, "*" and an empty string in its place,
\* a single string with a character id of 5, of 2, of 0x10005 and without
\* params, no string, an inline name with a text that is not translatable;
\* BLOCK commands: "1,0,1,R1＝2,*", "1,0,1,R10=2", "1,0,1, R1=2 ",
\* "1,0,1,R1=,*", "1,0,1,*", "1,0,1,あい", "1,0", no string, two strings;
\* a JUMP with and without target; a QUESTION; a CHANGESCENARIO with and
\* without target; an INIT
ExCmdSet ==
    { Cmd(28, << <<0, 5>> >>, << TextA, TextAI >>),
      Cmd(28, << <<0, 5>> >>, << <<CpStar>>, TextAI >>),
      Cmd(28, << <<0, 5>> >>, << <<>>, TextIA >>),
      Cmd(28, << <<0, 5>> >>, << TextAI >>),
      Cmd(28, << <<0, 2>> >>, << TextAI >>),
      Cmd(28, << <<1, 5>> >>, << TextAI >>),
      Cmd(28, <<>>, << TextAI >>),
      Cmd(28, << <<0, 5>> >>, <<>>),
      Cmd(28, << <<0, 5>> >>, << TextA, <<49, CpComma>> >>),
      Cmd(5, <<>>, << BlockHead \o <<CpR, 49, CpFwEq, 50, CpComma, CpStar>> >>),
      Cmd(5, <<>>, << BlockHead \o <<CpR, 49, 48, CpEq, 50>> >>),
      Cmd(5, <<>>, << BlockHead \o <<32, CpR, 49, CpEq, 50, 32>> >>),
      Cmd(5, <<>>, << BlockHead \o <<CpR, 49, CpEq, CpComma, CpStar>> >>),
      Cmd(5, <<>>, << BlockHead \o <<CpStar>> >>),
      Cmd(5, <<>>, << BlockHead \o TextAI >>),
      Cmd(5, <<>>, << <<49, CpComma, 48>> >>),
      Cmd(5, <<>>, <<>>),
      Cmd(5, <<>>, << TextAI, BlockHead \o <<CpR, 50, CpEq, 49>> >>),
      Cmd(20, <<>>, << <<97>> >>),
      Cmd(20, <<>>, <<>>),
      Cmd(21, <<>>, << TextAI \o <<CpTab, 49, CpTab, 114, 101, 115, CpBsl>>
                           \o TextA \o <<CpTab>> \o TextIA,
                       <<CpStar>> >>),
      Cmd(17, <<>>, << <<98>> >>),
      Cmd(17, <<>>, <<>>),
      Cmd(0, <<>>, <<>>) }

\* CHAR_TABLE: empty, or holding the ids 5 and 0x10005
ExTableSet ==
    { <<>>,
      [w \in { <<0, 5>>, <<1, 5>> } |->
          IF w = <<0, 5>> THEN TextI ELSE TextII] }

ExInit ==
    /\ CodecIdle /\ BaIdle /\ RuIdle /\ PrIdle /\ LkIdle /\ DzIdle
    /\ exCmds \in SeqsUpTo(ExCmdSet, MaxExCmds)
    /\ exTable \in ExTableSet
    /\ exPos = 0
    /\ exEntries = <<>>
    /\ exBranch = None
    /\ exPc = "loop"

\* one pass of `for i, cmd in enumerate(commands)`
ExPass ==
    /\ exPc = "loop"
    /\ exPos < Len(exCmds)
    /\ \E r \in { ExCommand(exCmds[exPos + 1], exPos, exBranch, exTable) } :
          /\ exEntries' = exEntries \o r.entries
          /\ exBranch' = r.branch
    /\ exPos' = exPos + 1
    /\ UNCHANGED <<exCmds, exTable, exPc, exceptEx>>

\* return entries
ExReturn ==
    /\ exPc = "loop"
    /\ exPos = Len(exCmds)
    /\ exPc' = "done"
    /\ UNCHANGED <<exCmds, exTable, exPos, exEntries, exBranch, exceptEx>>

ExStep == ExPass \/ ExReturn

SpecExtract == ExInit /\ [][ExStep]_vars

\* the fourth comma-separated field of the last string of a command
FourthField(cmd) ==
    LET parts == Split(cmd.strings[Len(cmd.strings)], CpComma)
    IN  IF Len(parts) >= 4 THEN parts[4] ELSE <<>>

\* the position of the equals sign when f reads R<q>＝<n> or R<q>=<n>, with
\* q and n made of one or more of the digits 0-9; 0 when it does not
ChoiceForm(f) ==
    LET E == { e \in 3 .. Len(f) - 1 :
                 /\ f[e] \in { CpFwEq, CpEq }
                 /\ \A k \in (2 .. Len(f)) \ { e } : f[k] \in 48 .. 57 }
    IN  IF f # <<>> /\ f[1] = CpR /\ E # {} THEN CHOOSE e \in E : TRUE ELSE 0

\* the command the next pass of the loop takes is a BLOCK whose last
\* string has a fourth field of the form R<q>＝<n> or R<q>=<n>
AtChoiceBlock ==
    /\ exPc = "loop" /\ exPos < Len(exCmds)
    /\ exCmds[exPos + 1].type = 5
    /\ exCmds[exPos + 1].strings # <<>>
    /\ ChoiceForm(FourthField(exCmds[exPos + 1])) # 0

\* CHOICE_<q>_<n> for the field f of that form
ChoiceOf(f) ==
    ChoiceId(SubSeq(f, 2, ChoiceForm(f) - 1),
             SubSeq(f, ChoiceForm(f) + 1, Len(f)))

\* C15: the pass over a BLOCK command whose last string has a fourth field
\* R<q>＝<n> or R<q>=<n> appends one BRANCH_START entry with the command's
\* index and branch_id CHOICE_<q>_<n>, and makes that branch the open
\* branch, whatever branch was open.
C15_BranchStart ==
    [][ AtChoiceBlock =>
          /\ Len(exEntries') = Len(exEntries) + 1
          /\ exEntries'[Len(exEntries')].type = "BRANCH_START"
          /\ exEntries'[Len(exEntries')].index = exPos
          /\ exEntries'[Len(exEntries')].branch_id
                 = ChoiceOf(FourthField(exCmds[exPos + 1]))
          /\ exBranch' = ChoiceOf(FourthField(exCmds[exPos + 1])) ]_vars

\* a second branch has replaced the first
C15_Witness ==
    /\ exPc = "done"
    /\ Len(exEntries) = 2
    /\ exEntries[1].type = "BRANCH_START"
    /\ exEntries[2].type = "BRANCH_START"
    /\ exEntries[1].branch_id # exEntries[2].branch_id
    /\ exBranch = exEntries[2].branch_id
    /\ exBranch = << 67, 72, 79, 73, 67, 69, 95, 49, 48, 95, 50 >>

\* the speaker of the claim for a MESSAGE command
ClaimedSpeaker(cmd) ==
    IF Len(cmd.strings) >= 2 /\ cmd.strings[1] # <<>>
       /\ cmd.strings[1] # << CpStar >>
    THEN cmd.strings[1]
    ELSE IF /\ cmd.params # <<>>
            /\ (cmd.params[1][1] > 0 \/ cmd.params[1][2] >= 3)
            /\ cmd.params[1] \in DOMAIN exTable
    THEN exTable[cmd.params[1]]
    ELSE None

\* C16: every MESSAGE entry carries as speaker the first string of its
\* command when the command has two or more strings and the first is
\* neither empty nor "*", else the character table's name for params[0]
\* when params[0] >= 3 and the table has it, else None; and as text the
\* last string.
C16_MessageSpeaker ==
    \A k \in 1 .. Len(exEntries) :
        exEntries[k].type = "MESSAGE" =>
            /\ exCmds[exEntries[k].index + 1].type = 28
            /\ exEntries[k].speaker
                   = ClaimedSpeaker(exCmds[exEntries[k].index + 1])
            /\ exEntries[k].text
                   = exCmds[exEntries[k].index + 1].strings[
                         Len(exCmds[exEntries[k].index + 1].strings)]

\* an inline name where the table has the id, and a name from the table
C16_Witness ==
    /\ exPc = "done"
    /\ Len(exEntries) = 2
    /\ exEntries[1].type = "MESSAGE" /\ exEntries[2].type = "MESSAGE"
    /\ exEntries[1].char_id \in DOMAIN exTable
    /\ exEntries[1].speaker = exCmds[1].strings[1]
    /\ exEntries[1].speaker # exTable[exEntries[1].char_id]
    /\ Len(exCmds[2].strings) = 2
    /\ exEntries[2].speaker = exTable[exEntries[2].char_id]

-----------------------------------------------------------------------------
(* compress_lzss and decompress_lzss side by side, one token at a time:    *)
(* the encoder's loop pass (GYU_Encode.py:108-141) on the input, the       *)
(* decoder's loop pass (GYU_Decode.py:120-155) on the compressed bytes.    *)

MaxLkLen == 5

LkInit ==
    /\ CodecIdle /\ BaIdle /\ RuIdle /\ PrIdle /\ ExIdle /\ DzIdle
    /\ lkIn \in SeqsUpTo(LzBytes, MaxLkLen)
    /\ lkComp = None
    /\ lkEnc = EncInit
    /\ lkDec = DecInit
    /\ lkK = 0

\* compressed = compress_lzss(data): what the decoder is given
LkCompress ==
    /\ lkComp = None
    /\ lkComp' = compress_lzss(lkIn)
    /\ UNCHANGED <<lkIn, lkEnc, lkDec, lkK, exceptLk>>

\* the encoder writes its next token, the decoder reads its next token
LkToken ==
    /\ lkComp # None
    /\ lkEnc.pos < Len(lkIn)
    /\ lkEnc' = EncToken(lkEnc, lkIn)
    /\ lkDec' = IF lkDec.pos < Len(lkComp) /\ ~lkDec.stop
                THEN DecToken(lkDec, lkComp, Len(lkIn))
                ELSE lkDec
    /\ lkK' = lkK + 1
    /\ UNCHANGED <<lkIn, lkComp, exceptLk>>

LkStep == LkCompress \/ LkToken

SpecLockstep == LkInit /\ [][LkStep]_vars

\* C17: after every token the encoder's window and write cursor equal the
\* decoder's; both start zero-filled with the cursor at 4078, and the
\* cursor stays within 0 .. 4095.
C17_WindowsAgree ==
    /\ lkEnc.window = lkDec.window
    /\ lkEnc.win_pos = lkDec.win_pos
    /\ lkEnc.win_pos \in 0 .. 4095
    /\ lkK = 0 => lkEnc.window = ZeroWindow /\ lkEnc.win_pos = 4078

-----------------------------------------------------------------------------
(* decompress_lzss on arbitrary bytes with an output_size >= 0             *)

MaxDzLen  == 3
MaxDzSize == 2

\* flag bytes and data bytes the inputs are built from
DzBytes == { 0, 1, 255 }

DzInit ==
    /\ CodecIdle /\ BaIdle /\ RuIdle /\ PrIdle /\ ExIdle /\ LkIdle
    /\ dzData \in SeqsUpTo(DzBytes, MaxDzLen)
    /\ dzSize \in 0 .. MaxDzSize
    /\ dzRet = None

\* decompress_lzss(compressed, expected_size), GYU_Decode.py:327
DzCall ==
    /\ dzRet = None
    /\ dzRet' = decompress_lzss(dzData, dzSize)
    /\ UNCHANGED <<dzData, dzSize, exceptDz>>

DzStep == DzCall

SpecDecSize == DzInit /\ [][DzStep]_vars

\* C18: for every input and every output_size >= 0, also 0,
\* decompress_lzss returns no more than output_size bytes.
C18_OutputBounded ==
    dzRet # None => Len(dzRet) <= dzSize

-----------------------------------------------------------------------------
(* The flow markers of extract_translatable, RLD_Decryptor.py:245-384:     *)
(* the same loop run on lists of up to MaxFlCmds commands that open,       *)
(* close and use a branch.                                                 *)

MaxFlCmds == 4

\* BLOCK commands "1,0,1,R1=2", "1,0,1,R10=2", "1,0,1,*", "1,0,1, *",
\* "1,0,1,あい" and "1,0"; a MESSAGE; a JUMP and a CHANGESCENARIO, each with
\* and without a string; a QUESTION
FlCmdSet ==
    { Cmd(5, <<>>, << BlockHead \o <<CpR, 49, CpEq, 50>> >>),
      Cmd(5, <<>>, << BlockHead \o <<CpR, 49, 48, CpEq, 50>> >>),
      Cmd(5, <<>>, << BlockHead \o <<CpStar>> >>),
      Cmd(5, <<>>, << BlockHead \o <<32, CpStar>> >>),
      Cmd(5, <<>>, << BlockHead \o TextAI >>),
      Cmd(5, <<>>, << <<49, CpComma, 48>> >>),
      Cmd(28, <<>>, << TextAI >>),
      Cmd(20, <<>>, << <<97>> >>),
      Cmd(20, <<>>, <<>>),
      Cmd(17, <<>>, << <<98>> >>),
      Cmd(17, <<>>, <<>>),
      Cmd(21, <<>>, << TextAI \o <<CpTab>> \o TextIA >>) }

FlInit ==
    /\ CodecIdle /\ BaIdle /\ RuIdle /\ PrIdle /\ LkIdle /\ DzIdle
    /\ exCmds \in SeqsUpTo(FlCmdSet, MaxFlCmds)
    /\ exTable = <<>>
    /\ exPos = 0
    /\ exEntries = <<>>
    /\ exBranch = None
    /\ exPc = "loop"

SpecFlow == FlInit /\ [][ExStep]_vars

\* the command an entry was emitted for
CmdOf(entry) == exCmds[entry.index + 1]

\* the entry was emitted by the pass just made
JustEmitted(k) == k = Len(exEntries) /\ exEntries[k].index = exPos - 1

\* C21 as stated: every MERGE entry belongs to a BLOCK command whose fourth
\* field is exactly "*".
C21_MergeOnlyExactStar ==
    \A k \in 1 .. Len(exEntries) :
        exEntries[k].type = "MERGE" =>
            /\ CmdOf(exEntries[k]).type = 5
            /\ FourthField(CmdOf(exEntries[k])) = << CpStar >>

\* C21: every MERGE entry belongs to a BLOCK command whose fourth field,
\* stripped of surrounding whitespace, is "*"; a BRANCH_START entry
\* precedes it with no MERGE between the two (so no MERGE precedes the
\* first BRANCH_START, and a BRANCH_START lies between any two MERGE
\* entries); and no branch is open after the pass that emitted it.
C21_MergeClosesBranch ==
    \A k \in 1 .. Len(exEntries) :
        exEntries[k].type = "MERGE" =>
            /\ CmdOf(exEntries[k]).type = 5
            /\ StripCp(FourthField(CmdOf(exEntries[k]))) = << CpStar >>
            /\ \E j \in 1 .. k - 1 :
                  /\ exEntries[j].type = "BRANCH_START"
                  /\ \A l \in j + 1 .. k - 1 : exEntries[l].type # "MERGE"
            /\ JustEmitted(k) => exBranch = None

\* two branches, each closed by a MERGE
C21_Witness ==
    /\ exPc = "done"
    /\ Len(exEntries) = 4
    /\ exEntries[1].type = "BRANCH_START"
    /\ exEntries[2].type = "MERGE"
    /\ exEntries[3].type = "BRANCH_START"
    /\ exEntries[4].type = "MERGE"
    /\ exEntries[1].branch_id # exEntries[3].branch_id
    /\ exBranch = None

\* the entries emitted for the command of index i (0-based)
EntriesAt(i) == SelectSeq(exEntries, LAMBDA e : e.index = i)

\* the entry types that carry a branch field
HasBranch(e) == e.type \in { "MESSAGE", "JUMP", "GOTO_FILE" }

\* a BRANCH_START entry was emitted for a command after the command of
\* index i and before the one of index j
BranchStartBetween(i, j) ==
    \E k \in 1 .. Len(exEntries) :
        /\ exEntries[k].type = "BRANCH_START"
        /\ exEntries[k].index > i /\ exEntries[k].index < j

\* entries of later commands carry a null branch until the next
\* BRANCH_START, and no branch is open right after the command
ClosedAfter(i) ==
    /\ \A k \in 1 .. Len(exEntries) :
          ( /\ HasBranch(exEntries[k])
            /\ exEntries[k].index > i
            /\ ~BranchStartBetween(i, exEntries[k].index) )
              => exEntries[k].branch = None
    /\ exPos = i + 1 => exBranch = None

\* C22 as stated: every CHANGESCENARIO command the loop has passed has
\* exactly one entry, a GOTO_FILE, and closes the branch.
C22_GotoAsStated ==
    \A i \in 0 .. exPos - 1 :
        exCmds[i + 1].type = 17 =>
            /\ Len(EntriesAt(i)) = 1
            /\ EntriesAt(i)[1].type = "GOTO_FILE"
            /\ ClosedAfter(i)

\* C22: a CHANGESCENARIO command the loop has passed has exactly one
\* entry, a GOTO_FILE whose target is strings[0], when it has a string, and
\* no entry when it has none; in both cases it closes the branch: the
\* entries of later commands carry a null branch until the next
\* BRANCH_START.
C22_GotoClosesBranch ==
    \A i \in 0 .. exPos - 1 :
        exCmds[i + 1].type = 17 =>
            /\ IF exCmds[i + 1].strings # <<>>
               THEN /\ Len(EntriesAt(i)) = 1
                    /\ EntriesAt(i)[1].type = "GOTO_FILE"
                    /\ EntriesAt(i)[1].target = exCmds[i + 1].strings[1]
               ELSE EntriesAt(i) = <<>>
            /\ ClosedAfter(i)

\* a CHANGESCENARIO inside a branch, a MESSAGE after it, and a MESSAGE in
\* a branch opened later
C22_Witness ==
    /\ exPc = "done"
    /\ Len(exEntries) = 4
    /\ exEntries[1].type = "BRANCH_START"
    /\ exEntries[2].type = "GOTO_FILE"
    /\ exEntries[2].branch = exEntries[1].branch_id
    /\ exEntries[3].type = "MESSAGE"
    /\ exEntries[3].branch = None
    /\ exEntries[4].type = "BRANCH_START"

\* the command the next pass of the loop takes is a JUMP
AtJump ==
    /\ exPc = "loop" /\ exPos < Len(exCmds)
    /\ exCmds[exPos + 1].type = 20

\* the pass appends one JUMP entry for the command it takes, with the
\* command's first string as target and the open branch as branch
AppendsJump ==
    /\ Len(exEntries') = Len(exEntries) + 1
    /\ SubSeq(exEntries', 1, Len(exEntries)) = exEntries
    /\ exCmds[exPos + 1].strings # <<>>
    /\ exEntries'[Len(exEntries')]
           = [index |-> exPos, type |-> "JUMP",
              target |-> exCmds[exPos + 1].strings[1], branch |-> exBranch]

\* C23 as stated: the pass over a JUMP command appends a JUMP entry and
\* leaves the open branch unchanged.
C23_JumpAsStated ==
    [][ AtJump => AppendsJump /\ exBranch' = exBranch ]_vars

\* C23: the pass over a JUMP command that has a string appends one JUMP
\* entry whose target is strings[0] and whose branch is the open branch;
\* the pass over a JUMP command without strings appends nothing; in both
\* cases the open branch is unchanged.
C23_JumpKeepsBranch ==
    [][ AtJump =>
          /\ IF exCmds[exPos + 1].strings # <<>>
             THEN AppendsJump
             ELSE exEntries' = exEntries
          /\ exBranch' = exBranch ]_vars

\* a JUMP inside a branch and a MESSAGE after it in the same branch
C23_Witness ==
    /\ exPc = "done"
    /\ Len(exEntries) = 4
    /\ exEntries[1].type = "MESSAGE"
    /\ exEntries[1].branch = None
    /\ exEntries[2].type = "BRANCH_START"
    /\ exEntries[3].type = "JUMP"
    /\ exEntries[3].branch = exEntries[2].branch_id
    /\ exEntries[4].type = "MESSAGE"
    /\ exEntries[4].branch = exEntries[2].branch_id

\* the positions of the BRANCH_START entries before entry k
StartsBefore(k) ==
    { j \in 1 .. k - 1 : exEntries[j].type = "BRANCH_START" }

\* the position of the most recent BRANCH_START entry before entry k
LastStart(k) ==
    CHOOSE j \in StartsBefore(k) : \A h \in StartsBefore(k) : h <= j

\* a MERGE entry, a LABEL entry or a CHANGESCENARIO command lies between
\* entry j and entry k
CloserBetween(j, k) ==
    \/ \E l \in j + 1 .. k - 1 : exEntries[l].type \in { "MERGE", "LABEL" }
    \/ \E i \in exEntries[j].index + 1 .. exEntries[k].index - 1 :
          exCmds[i + 1].type = 17

\* the branch the claim gives entry k
ClaimedBranch(k) ==
    IF StartsBefore(k) = {} THEN None
    ELSE IF CloserBetween(LastStart(k), k) THEN None
    ELSE exEntries[LastStart(k)].branch_id

\* the command the next pass of the loop takes is a MESSAGE, a JUMP or a
\* QUESTION
AtNeutral ==
    /\ exPc = "loop" /\ exPos < Len(exCmds)
    /\ exCmds[exPos + 1].type \in { 28, 20, 21 }

\* C29: the branch of every MESSAGE, JUMP and GOTO_FILE entry is the
\* branch_id of the most recent BRANCH_START entry before it when no MERGE
\* entry, no LABEL entry and no CHANGESCENARIO command lies between the
\* two, and None otherwise (also when no BRANCH_START precedes it); and the
\* pass over a MESSAGE, JUMP or QUESTION command leaves the open branch
\* unchanged.
C29_BranchTag ==
    /\ [](\A k \in 1 .. Len(exEntries) :
            HasBranch(exEntries[k]) =>
                exEntries[k].branch = ClaimedBranch(k))
    /\ [][ AtNeutral => exBranch' = exBranch ]_vars

\* a MESSAGE in a branch, a LABEL, and a MESSAGE after it outside the
\* branch
C29_Witness ==
    /\ exPc = "done"
    /\ Len(exEntries) = 4
    /\ exEntries[1].type = "BRANCH_START"
    /\ exEntries[2].type = "MESSAGE"
    /\ exEntries[2].branch = exEntries[1].branch_id
    /\ exEntries[3].type = "LABEL"
    /\ exEntries[4].type = "MESSAGE"
    /\ exEntries[4].branch = None

-----------------------------------------------------------------------------
(* The key of a GYU file and the shuffle, GYU_Encode.py:321-336 and        *)
(* GYU_Decode.py:299-327, on the files of SpecGyu.                          *)

\* the RGB payload stored in a file: data[compressed_start:
\* compressed_start + data_size], GYU_Decode.py:299-300
StoredRgb(data) ==
    Slice(data, 36 + (UnpackU32(data, 32) * 4),
          36 + (UnpackU32(data, 32) * 4) + UnpackU32(data, 24))

\* row_stride * height of a file's header, GYU_Decode.py:308-310
ExpectedSize(data) ==
    Stride4(UnpackU32(data, 16)
              * (IF UnpackU32(data, 12) >= 8 THEN UnpackU32(data, 12) \div 8
                 ELSE 1))
        * UnpackU32(data, 20)

\* the stored payload was handed to the decompressor as it is stored
DecodedUnpermuted ==
    gyRgb = IF UnpackU32(gyFile, 24) = ExpectedSize(gyFile)
            THEN StoredRgb(gyFile)
            ELSE decompress_lzss(StoredRgb(gyFile), ExpectedSize(gyFile))

\* C24: with key 0 the file the encoder writes stores the LZSS output
\* unpermuted, and the decoder hands the stored bytes to the decompressor
\* unpermuted.
C24_KeyZeroNoShuffle ==
    (gyPc \in { "encoded", "decoded" } /\ gyKey = ZeroWord) =>
        /\ UnpackLE(gyFile, 8) = ZeroWord
        /\ StoredRgb(gyFile) = compress_lzss(gyRaw)
        /\ gyPc = "decoded" => DecodedUnpermuted

-----------------------------------------------------------------------------
(* decompress_lzss2 on an input that ends early, GYU_Decode.py:169-239,    *)
(* on the calls of SpecLzss2.                                              *)

\* the reader has consumed the whole input
InputEnded == l2Pos >= Len(l2Data)

\* the byte the reader consumed last is a zero byte of the input: the only
\* byte a zero count of a long reference can have been read from
LastReadIsZero == l2Pos >= 1 /\ l2Data[l2Pos] = 0

\* C25: a call that returns after the reader has consumed the whole input,
\* where the last byte consumed is not a zero byte (so no zero count was
\* read from the input), returns exactly output_size bytes.
C25_FillsToSize ==
    (l2Pc = "done" /\ InputEnded /\ ~LastReadIsZero) =>
        Len(l2Ret) = l2Size

-----------------------------------------------------------------------------
(* decode_gyu (GYU_Decode.py:260-352) on files that were not written by    *)
(* png_to_gyu: both values of the type field, stored and compressed        *)
(* payloads, payloads shorter than the declared data_size.                 *)

\* type fields: 0 (LZSS) and 0x0800 (TYPE_GYU)
GfTypes == { 0, 2048 }

\* keys: none, and 0x20100806
GfKeys == { <<0, 0>>, <<8208, 2054>> }

\* <<bpp, width, height>>: row_stride * height is 4 and 8
GfDims == { <<8, 1, 1>>, <<24, 2, 1>> }

\* declared data_size
GfSizes == { 4, 6, 8 }

\* payloads of 4, 6 and 8 bytes
GfPayloads ==
    { << 1, 2, 3, 4 >>,
      << 15, 5, 6, 7, 8, 9 >>,
      << 9, 9, 9, 9, 7, 128, 3, 0 >> }

\* a file without alpha plane and palette: the 36-byte header (magic, flags,
\* type, key, bpp, width, height, data_size, alpha_size, pal_colors), then
\* the payload
GfFile(type_, key, dims, data_size, payload) ==
    GYU_MAGIC \o PackU16(0) \o PackU16(type_) \o PackWord(key)
        \o PackU32(dims[1]) \o PackU32(dims[2]) \o PackU32(dims[3])
        \o PackU32(data_size) \o PackU32(0) \o PackU32(0) \o payload

GfFileSet ==
    { GfFile(t, k, d, n, p) :
          t \in GfTypes, k \in GfKeys, d \in GfDims, n \in GfSizes,
          p \in GfPayloads }

\* the bytes of a file were read: data = f.read(), GYU_Decode.py:262-263
GfInit ==
    /\ MTIdle /\ ShIdle /\ LzIdle /\ L2Idle /\ RlIdle /\ TsvIdle /\ ToolIdle
    /\ gyImg = <<>> /\ gyKey = ZeroWord /\ gyRaw = None /\ gyAlphaRaw = None
    /\ gyFile \in GfFileSet
    /\ gyRgb = None /\ gyAlphaOut = None
    /\ gyPc = "encoded"

GfStep == GyDecode

SpecGyuFile == GfInit /\ [][GfStep]_vars

\* the payload as the decoder holds it after "Unscramble",
\* GYU_Decode.py:312-315
Unscrambled(data) ==
    IF UnpackLE(data, 8) # ZeroWord
    THEN unscramble(StoredRgb(data), UnpackLE(data, 8), Len(StoredRgb(data)))
    ELSE StoredRgb(data)

\* C26: the RGB plane decode_gyu returns is the payload itself when
\* data_size equals row_stride * height, whatever the type field is;
\* otherwise, when the type is 0x0800, the LZSS2 decoding of the payload
\* without its first 4 bytes to row_stride * height bytes; otherwise the
\* LZSS decoding of the payload to row_stride * height bytes.
C26_CodecPrecedence ==
    gyPc = "decoded" =>
        gyRgb =
          IF UnpackU32(gyFile, 24) = ExpectedSize(gyFile)
          THEN Unscrambled(gyFile)
          ELSE IF UnpackU16(gyFile, 6) = 2048
          THEN decompress_lzss2(SubSeq(Unscrambled(gyFile), 5,
                                       Len(Unscrambled(gyFile))),
                                ExpectedSize(gyFile))
          ELSE decompress_lzss(Unscrambled(gyFile), ExpectedSize(gyFile))

\* a file of type 0x0800 whose data_size is row_stride * height was copied,
\* and its LZSS2 decoding would have been something else
C26_Witness ==
    /\ gyPc = "decoded"
    /\ UnpackU16(gyFile, 6) = 2048
    /\ UnpackU32(gyFile, 24) = ExpectedSize(gyFile)
    /\ gyRgb = StoredRgb(gyFile)
    /\ Len(gyRgb) = 8
    /\ gyRgb # decompress_lzss2(SubSeq(StoredRgb(gyFile), 5, 8), 8)

\* the payload after the 10 swaps drawn with rand(data_size), data_size the
\* size declared in the header
UnscrambledByDeclaredSize(data) ==
    unscramble(StoredRgb(data), UnpackLE(data, 8), UnpackU32(data, 24))

\* C27: for a file with a key other than 0, the RGB plane decode_gyu
\* returns is decoded from the payload whose 10 swap pairs were drawn with
\* rand(data_size), data_size the size declared in the header, also when
\* the payload is shorter than data_size.
C27_RandUsesDeclaredSize ==
    (gyPc = "decoded" /\ UnpackLE(gyFile, 8) # ZeroWord) =>
        gyRgb = DecompressRgb(UnscrambledByDeclaredSize(gyFile),
                              UnpackU16(gyFile, 6), UnpackU32(gyFile, 24),
                              ExpectedSize(gyFile))

-----------------------------------------------------------------------------
(* shuffle_compressed followed by unshuffle_decompressed,                  *)
(* GYU_Decode.py:76-108, on the runs of SpecShuffle.                       *)

\* how often the byte v occurs in the buffer
Count(buf, v) == Cardinality({ i \in 1 .. Len(buf) : buf[i] = v })

\* the two buffers have the same length and the same bytes, each as often
SameBytes(a, b) ==
    /\ Len(a) = Len(b)
    /\ \A v \in 0 .. 255 : Count(a, v) = Count(b, v)

\* C28: shuffle_compressed and unshuffle_decompressed each return a buffer
\* with the length and the multiset of bytes of their argument, and
\* unshuffle_decompressed applied with the same key and size to the result
\* of shuffle_compressed returns the original buffer.
C28_UnshuffleInvertsShuffle ==
    /\ shPc >= 3 => SameBytes(shFwd, shIn)
    /\ shPc >= 4 => SameBytes(shRev, shIn)
    /\ shPc >= 5 => shBack = shIn

\* the round trip of a buffer that the forward and the reverse order
\* permute differently
C28_Witness ==
    /\ shPc = 5
    /\ shFwd # shIn
    /\ shFwd # shRev
    /\ shBack = shIn
    /\ shSize > Len(shIn)

-----------------------------------------------------------------------------
(* export_tsv (RLD_Decryptor.py:389-448) followed by fix_corrupted_tsv     *)
(* (574-699) on the same RLD folder: the folder holds one script "s" whose *)
(* command 0 is a MESSAGE without speaker.                                  *)

MaxXpTail == 2

\* characters that follow "abc" in the text of the message
XpChars == { "d", "n", "t", BSL, LF, TAB, CR }

\* texts extract_translatable emits (three letters make a text
\* translatable, RLD_Decryptor.py:78)
XpTexts == { << "a", "b", "c" >> \o y : y \in SeqsUpTo(XpChars, MaxXpTail) }

\* the lines export_tsv writes before the first entry, lines 391-399: the
\* comment lines (one line "#" stands for them: the loop of the repair
\* takes every line that starts with "#" the same way) and the column
\* header
XpHeader ==
    << "#", LF >>
        \o Join(<< << "F", "I", "L", "E" >>, << "I", "N", "D", "E", "X" >>,
                   << "T", "Y", "P", "E" >>,
                   << "O", "R", "I", "G", "I", "N", "A", "L" >>,
                   << "T", "R", "A", "N", "S", "L", "A", "T", "I", "O", "N" >>
                >>, TAB)
        \o << LF >>

\* export_tsv for the one MESSAGE entry of file "s", index 0, with the text
\* `text`: the comment lines of the file header (lines 406-408, one line
\* "#" again) and the TEXT row
\* f"{file}\t{index}\tTEXT\t{text_escaped}\t\n" (lines 432-435)
export_tsv(text) ==
    XpHeader
        \o << "#", LF >>
        \o Join(<< <<"s">>, <<"0">>, TEXT, Escape(text), <<>> >>, TAB)
        \o << LF >>

\* the pristine table fix_corrupted_tsv builds from the same folder,
\* lines 598-628, and the TSV export_tsv wrote for it
XpInit ==
    /\ MTIdle /\ ShIdle /\ LzIdle /\ L2Idle /\ RlIdle /\ GyIdle /\ ToolIdle
    /\ \E x \in XpTexts :
          /\ tsvPristine = [k \in {TsvKey} |-> x]
          /\ tsvFile = export_tsv(x)
    /\ tsvPos = 0
    /\ tsvLines = <<>>
    /\ tsvOut = None
    /\ tsvPc = "loop"

SpecExport == XpInit /\ [][TsvStep]_vars

\* the pass over this line counts it as fixed (fixed_count += 1, line 675)
Fixes(line, pristine) ==
    /\ ~(line # <<>> /\ line[1] = "#")
    /\ \E i \in 1 .. Len(line) : line[i] = TAB
    /\ Strip(line) # <<>>
    /\ Len(Split(RStripCRLF(line), TAB)) >= 4
    /\ ParseInt(Split(RStripCRLF(line), TAB)[2]).ok
    /\ LET parts == Split(RStripCRLF(line), TAB)
           key   == << parts[1], ParseInt(parts[2]).val, parts[3] >>
       IN  key \in DOMAIN pristine /\ Unescape(parts[4]) # pristine[key]

\* fixed_count after the passes made so far
fixed_count ==
    The({ Cardinality({ k \in 1 .. tsvPos : Fixes(lines[k], tsvPristine) }) :
          lines \in { ReadLines(tsvFile) } })

\* C30: unescaping the escaped form of the exported text yields the text,
\* and the repair of the freshly exported TSV ends with no entry counted
\* as fixed.
C30_ExportRoundTrips ==
    tsvPc = "written" =>
        /\ Unescape(Escape(tsvPristine[TsvKey])) = tsvPristine[TsvKey]
        /\ fixed_count = 0

=============================================================================
